---------------------------- MODULE ProviderChain ----------------------------
(***************************************************************************)
(* One call of the AI layer (apps/ai/services.py, providers.py): the chain *)
(* of providers tried in order, the check of the reply's shape outside the *)
(* chain, the second round of a review, and the attempts of an embedding.  *)
(* Calls share nothing.                                                    *)
(***************************************************************************)
EXTENDS Integers, Sequences

\* What a request to a provider comes to: a usable reply, JSON of another
\* shape, a reply cut off at the token limit, or any exception (the network, a
\* status, a reply that is no JSON).
Replies == {"reply", "malformed", "truncated", "error"}

\* _ACTION_CHAINS, by length; quizzes and roadmaps are as long as topics, and
\* names are standardized by a chain as long as that of resolve.  Embeddings go
\* to one provider, max_attempts times.
Length == [topic |-> 3, review |-> 3, resolve |-> 2, embedding |-> 3]
Actions == DOMAIN Length
Results == {"answer", "flagged", "malformed", "unavailable"}

VARIABLES
  call,    \* the action called, or "none"
  step,    \* position in the chain, or number of the attempt
  round,   \* attempt of review_content
  result,  \* what the caller gets; "none" while the call lasts
  log      \* observed: what each request came to

vars == <<call, step, round, result, log>>

Init == call = "none" /\ step = 1 /\ round = 1 /\ result = "none" /\ log = <<>>

Running == call # "none" /\ result = "none"

Call(action) ==
  /\ call = "none"
  /\ call' = action
  /\ UNCHANGED <<step, round, result, log>>

\* _call_openai_compatible raises for a truncated reply.
Fails(reply) == reply \in {"truncated", "error"}

IsLast == step = Length[call]

\* ProviderError, which review_content turns into a flag.
Exhausted == IF call = "review" THEN "flagged" ELSE "unavailable"

\* The next step, or the end of the call.
Failed(reply) ==
  /\ log' = Append(log, reply)
  /\ IF IsLast THEN result' = Exhausted /\ UNCHANGED step
     ELSE step' = step + 1 /\ UNCHANGED result
  /\ UNCHANGED <<call, round>>

TryNextProvider(reply) ==
  Running /\ call # "embedding" /\ Fails(reply) /\ Failed(reply)

\* An embedding is asked for again, of the same provider.
TryAgain ==
  Running /\ call = "embedding" /\ Failed("error")

Answer ==
  /\ Running
  /\ log' = Append(log, "reply")
  /\ result' = "answer"
  /\ UNCHANGED <<call, step, round>>

\* Mutant of Rounds: one malformed reply decides.
RoundsOne == 1

Rounds == 2

\* _validate_shape: the other providers are not asked; a review goes through
\* its chain once more.
Malformed(reply) ==
  /\ Running /\ ~ Fails(reply) /\ reply # "reply"
  /\ call # "embedding"
  /\ log' = Append(log, reply)
  /\ IF call = "review" /\ round < Rounds
     THEN round' = round + 1 /\ step' = 1 /\ UNCHANGED result
     ELSE /\ result' = IF call = "review" THEN "flagged" ELSE "malformed"
          /\ UNCHANGED <<round, step>>
  /\ UNCHANGED call

Return ==
  /\ result # "none"
  /\ call' = "none" /\ step' = 1 /\ round' = 1 /\ result' = "none" /\ log' = <<>>

Next ==
  \/ \E action \in Actions : Call(action)
  \/ \E reply \in Replies : TryNextProvider(reply) \/ Malformed(reply)
  \/ TryAgain \/ Answer
  \/ Return

Spec == Init /\ [][Next]_vars

-----------------------------------------------------------------------------
(* Properties *)

\* What a caller gets has its reason.  An answer is a whole document, "instead
\* of returning a partial document"; "Raises ProviderError when every step
\* fails", and not while a provider of the chain has not been asked; "If all
\* review providers fail, or the reply is malformed twice, returns a flagged
\* result", so that a review always has a verdict.  No call asks more often than
\* twice round its chain.
ResultHasReason ==
  LET Twice == \E i, j \in DOMAIN log :
        i # j /\ \A k \in DOMAIN log : (log[k] = "malformed" <=> k \in {i, j})
  IN  /\ Len(log) <= 2 * Length["review"]
      /\ result = "answer" => log[Len(log)] = "reply"
      /\ result = "malformed" => log[Len(log)] = "malformed" /\ call # "review"
      /\ result = "unavailable" =>
           /\ Len(log) = Length[call] /\ call # "review"
           /\ \A i \in DOMAIN log : Fails(log[i])
      /\ result = "flagged" =>
           /\ call = "review"
           /\ \/ Twice
              \/ Len(log) >= 3 /\ \A i \in Len(log) - 2 .. Len(log) : Fails(log[i])
=============================================================================
