---------------------------- MODULE StatusEvents -----------------------------
(***************************************************************************)
(* Server-sent events about the status of one topic or one roadmap         *)
(* (apps/learning/events.py, apps/core/eventstream.py).  Who writes an     *)
(* outcome, and the cleanup that gives a stuck topic back, reads the       *)
(* status again and sends it to every enrolled learner, one after the      *)
(* other.  Claims and the other resets write the status and publish        *)
(* nothing.  Events are not stored; a page reads the status with a GET     *)
(* when it connects.                                                       *)
(***************************************************************************)

CONSTANTS
  Publishers,   \* tasks and requests that publish the status they wrote
  Learners

VARIABLES
  kind,       \* what has the status: a topic or a roadmap
  status,     \* content_status or roadmap_status, in the database
  enrolled,   \* the learners enrolled in the subject
  page,       \* page[l]: the status the open page shows, or Closed
  pub,        \* the local variables of each publisher
  \* Observed, never read by an action of the program:
  silent,     \* the last write of the status was one that publishes nothing
  missed      \* learners for whom an event failed, or may be late

vars == <<kind, status, enrolled, page, pub, silent, missed>>

Statuses == {"NOT_GENERATED", "GENERATING", "READY", "FAILED"}
Outcomes == {"READY", "FAILED"}
Closed == "closed"
Rest == [pc |-> "idle", read |-> "NOT_GENERATED", left |-> {}]

Init ==
  /\ kind \in {"topic", "roadmap"}
  /\ status = "NOT_GENERATED" /\ enrolled = {} /\ missed = {} /\ silent = FALSE
  /\ page = [l \in Learners |-> Closed]
  /\ pub = [p \in Publishers |-> Rest]

At(p, pc) == pub[p].pc = pc
Busy == {p \in Publishers : ~ At(p, "idle")}

Enrol(l) ==
  /\ enrolled' = enrolled \cup {l}
  /\ UNCHANGED <<kind, status, page, pub, silent, missed>>

\* UserChannelManager: everyone has a channel of their own; enrolled learners
\* see the subject.  The page reads the status and then follows its events.
OpenPage(l) ==
  /\ l \in enrolled
  /\ page' = [page EXCEPT ![l] = status]
  /\ missed' = IF \E p \in Busy : At(p, "send") /\ pub[p].read # status
               THEN missed \cup {l} ELSE missed \ {l}
  /\ UNCHANGED <<kind, status, enrolled, pub, silent>>

ClosePage(l) ==
  /\ page[l] # Closed
  /\ page' = [page EXCEPT ![l] = Closed]
  /\ UNCHANGED <<kind, status, enrolled, pub, silent, missed>>

\* A claim moves the status to GENERATING; only that of a roadmap takes FAILED.
Claim ==
  /\ status \in (IF kind = "topic" THEN {"NOT_GENERATED"} ELSE {"NOT_GENERATED", "FAILED"})
  /\ status' = "GENERATING" /\ silent' = TRUE
  /\ UNCHANGED <<kind, enrolled, page, pub, missed>>

\* A retry, a failed review and a notification put the topic back to be claimed.
PutBack ==
  /\ kind = "topic"
  /\ status' = "NOT_GENERATED" /\ silent' = TRUE
  /\ UNCHANGED <<kind, enrolled, page, pub, missed>>

\* What is published: outcomes, and a topic that the cleanup gives back.  None of
\* these writes looks at the status it overwrites.
Published == IF kind = "topic" THEN Outcomes \cup {"NOT_GENERATED"} ELSE Outcomes

\* A publication with no other on its way makes up for what was missed before;
\* two at a time may arrive in either order.
Change(p) ==
  /\ At(p, "idle")
  /\ status' \in Published /\ silent' = FALSE
  /\ pub' = [pub EXCEPT ![p].pc = "read"]
  /\ missed' = IF Busy = {} THEN {} ELSE Learners
  /\ UNCHANGED <<kind, enrolled, page>>

\* Mutant of Current: the publisher's copy from before the write is sent.
CurrentBefore == "GENERATING"

\* refresh_from_db, or a new read of the topic.
Current == status

ReadStatus(p) ==
  /\ At(p, "read")
  /\ pub' = [pub EXCEPT ![p] = [pc |-> "send", read |-> Current, left |-> enrolled]]
  /\ UNCHANGED <<kind, status, enrolled, page, silent, missed>>

\* A failure to send is logged, and the next learner is served.
Send(p, l) ==
  /\ At(p, "send") /\ l \in pub[p].left
  /\ pub' = [pub EXCEPT ![p].left = @ \ {l}]
  /\ \/ /\ page' = IF page[l] = Closed THEN page ELSE [page EXCEPT ![l] = pub[p].read]
        /\ UNCHANGED missed
     \/ missed' = missed \cup {l} /\ UNCHANGED page
  /\ UNCHANGED <<kind, status, enrolled, silent>>

Sent(p) ==
  /\ At(p, "send") /\ pub[p].left = {}
  /\ pub' = [pub EXCEPT ![p] = Rest]
  /\ UNCHANGED <<kind, status, enrolled, page, silent, missed>>

\* A worker is lost after its write, or while it sends.
Dies(p) ==
  /\ ~ At(p, "idle")
  /\ pub' = [pub EXCEPT ![p] = Rest]
  /\ missed' = IF At(p, "read") THEN Learners ELSE missed \cup pub[p].left
  /\ UNCHANGED <<kind, status, enrolled, page, silent>>

Next ==
  \/ Claim \/ PutBack
  \/ \E l \in Learners : Enrol(l) \/ OpenPage(l) \/ ClosePage(l)
  \/ \E p \in Publishers :
       Change(p) \/ ReadStatus(p) \/ Sent(p) \/ Dies(p) \/ \E l \in Learners : Send(p, l)

Spec == Init /\ [][Next]_vars

-----------------------------------------------------------------------------

\* "the database is the source of truth and clients reconcile with a GET": once
\* publishers are done, an open page shows the outcome that is stored, or that
\* the cleanup gave the topic back, unless the event for it failed, was never
\* sent or crossed another one since the page was opened.  Of a claim or another
\* reset a page learns only by its next GET.
PagesAreCurrent ==
  Busy = {} =>
    \A l \in Learners \ missed :
      page[l] # Closed /\ (status \in Outcomes \/ ~ silent) => page[l] = status
=============================================================================
