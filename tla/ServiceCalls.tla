---------------------------- MODULE ServiceCalls ----------------------------
(***************************************************************************)
(* How the model servers are asked, and asked again.  Five callers each    *)
(* put a loop of their own around an adapter that may loop too:            *)
(*   generate  RunGenerationPass around VLLMGeneratorAdapter               *)
(*   batch     RunMetricsPass around RAGASLayer1Adapter.score_batch        *)
(*   judge     RunJudgePass around PrometheusJudgeAdapter                  *)
(*   layer1    RetryableMetricSuiteAdapter around RAGASLayer1Adapter.score *)
(*   rubric    RetryableRubricJudgeAdapter around PrometheusRubricJudge    *)
(* A try of the outer loop begins the work again, a whole batch included;  *)
(* a try of the inner loop repeats one request.  The adapter of RAGAS      *)
(* leaves more to libraries: a metric sends several prompts, RAGAS repeats *)
(* a prompt, and the client of openai, whose max_retries only the other    *)
(* adapters set to 0, sends each request again by itself.  The servers     *)
(* answer any request in any way at any time.                              *)
(***************************************************************************)
EXTENDS ResultRow, Integers, Sequences

CONSTANTS
  BatchSize,      \* samples of a batch of the metrics pass
  PassAttempts,   \* max_retries of the passes: tries of an outer loop
  Attempts,       \* stop_after_attempt of the adapters: tries of an inner loop
  MaxRetries,     \* RetryConfig.max_retries: tries after the first one
  MaxPrompts,     \* RAGAS: prompts a metric may send, repairs included
  RagasTries,     \* RAGAS: tries of a prompt (max_retries of its RunConfig)
  RagasRepeats,   \* RAGAS: the failures it repeats a prompt for
  SdkRetries      \* openai: times a client sends a request again by default

\* What can come of a request: a value; a text that cannot be read as one; a
\* 4xx, a 5xx, a 429; no connection or no answer in time.
Failures == {"garbled", "refused", "broken", "busy", "unreachable"}

ASSUME ServiceCallsAssumption ==
  /\ BatchSize \in Nat \ {0}
  /\ PassAttempts \in Nat \ {0}
  /\ Attempts \in Nat \ {0}
  /\ MaxRetries \in Nat
  /\ MaxPrompts \in Nat \ {0}
  /\ RagasTries \in Nat \ {0}
  /\ RagasRepeats \subseteq Failures
  /\ SdkRetries \in Nat

VARIABLES
  chain,     \* the caller
  status,    \* what has become of the call
  outer,     \* try of the outer loop
  prompt,    \* prompt of the metric in hand
  inner,     \* try of the inner loop
  client,    \* try of the client
  got,       \* values obtained so far, each with the outer try it is of
  requests   \* requests sent

callVars == <<chain, status, outer, prompt, inner, client, got, requests>>

Chains == {"generate", "batch", "judge", "layer1", "rubric"}

\* The order of the Layer 1 metrics (a dict of the adapter).
FieldOrder == <<"answer_correctness", "faithfulness">>
Fields == Len(FieldOrder)

\* RAGAS computes a metric; everybody else sends one request.
ByRagas(c) == c \in {"batch", "layer1"}

\* The values a try obtains: each metric of a sample is one.
Units(c) == CASE c = "batch" -> BatchSize * Fields
              [] c = "layer1" -> Fields
              [] OTHER -> 1

\* The prompts a value may take, the tries of a prompt and those of a request.
Prompts(c) == IF ByRagas(c) THEN MaxPrompts ELSE 1
OuterTries(c) == IF c \in {"layer1", "rubric"} THEN MaxRetries + 1 ELSE PassAttempts
InnerTries(c) == CASE c \in {"generate", "judge"} -> Attempts
                   [] ByRagas(c) -> RagasTries
                   [] OTHER -> 1
ClientTries(c) == IF ByRagas(c) THEN SdkRetries + 1 ELSE 1

\* The failures a client sends a request again for, if it may.
Resent == {"unreachable", "broken", "busy"}

\* The failures the adapter's own loop, or that of RAGAS, repeats the request for.
RepeatedInside(c) == CASE c = "generate" -> {"unreachable", "busy"}
                       [] c = "judge" -> {"garbled"}
                       [] ByRagas(c) -> RagasRepeats
                       [] OTHER -> {}

\* Those that, from the adapter, are an error the caller tries again after:
\* any error of the generator, a judge or a metric that cannot be reached.
RepeatedOutside(c) == CASE c = "generate" -> Failures \ {"garbled"}
                        [] c = "rubric" -> {"unreachable", "broken"}
                        [] OTHER -> {"unreachable"}

\* Those the adapter turns into NaN: RAGAS each metric by itself, the judges an
\* answer they cannot read.
TakenAsNaN(c) == CASE ByRagas(c) -> Failures \ {"unreachable"}
                   [] c \in {"judge", "rubric"} -> {"garbled"}
                   [] OTHER -> {}

\* The others go up to whoever called the pass or the use case.  (A generator
\* has no text that is not an answer.)
Escaping(c) == Failures \ (TakenAsNaN(c) \cup RepeatedOutside(c)
                           \cup IF c = "generate" THEN {"garbled"} ELSE {})

CallTypeOK ==
  /\ chain \in Chains
  /\ status \in {"idle", "asking", "values", "sentinel", "raised"}
  /\ outer \in Nat
  /\ prompt \in Nat
  /\ inner \in Nat
  /\ client \in Nat
  /\ got \in Seq([of : Nat, is : Values])
  /\ requests \in Nat

CallInit ==
  /\ chain = "generate"
  /\ status = "idle"
  /\ outer = 1
  /\ prompt = 1
  /\ inner = 1
  /\ client = 1
  /\ got = <<>>
  /\ requests = 0

-----------------------------------------------------------------------------
\* The first try of the first prompt.
Anew == prompt' = 1 /\ inner' = 1 /\ client' = 1

Dial(c) ==
  /\ chain' = c
  /\ status' = "asking"
  /\ outer' = 1
  /\ Anew
  /\ got' = <<>>
  /\ requests' = 0

Ask(c) == status = "idle" /\ Dial(c)

\* A value is kept; the last one ends the call.
Keep(v) ==
  /\ got' = Append(got, [of |-> outer, is |-> v])
  /\ status' = IF Len(got) + 1 = Units(chain) THEN "values" ELSE "asking"
  /\ Anew
  /\ requests' = requests + 1
  /\ UNCHANGED <<chain, outer>>

\* The answer to the last prompt, whichever that is, gives the value.
GetValue(v) ==
  /\ status = "asking"
  /\ Keep(v)

\* The answer to another prompt makes one more: the next step of the metric, or
\* the repair of an answer that could not be read.
NextPrompt ==
  /\ status = "asking"
  /\ prompt < Prompts(chain)
  /\ prompt' = prompt + 1
  /\ inner' = 1
  /\ client' = 1
  /\ requests' = requests + 1
  /\ UNCHANGED <<chain, status, outer, got>>

\* The client, then the inner loop, have no try left for failure r, or never
\* had one.
ClientSpent(r) == r \in Resent => client = ClientTries(chain)
InnerSpent(r) == ClientSpent(r) /\ (r \in RepeatedInside(chain) => inner = InnerTries(chain))

\* A failure that is a NaN, once the inner loop has given up.
Spoiled(r) ==
  /\ status = "asking"
  /\ r \in TakenAsNaN(chain)
  /\ InnerSpent(r)
  /\ Keep(NaN)

\* The client sends the request again; nobody above it knows.
Resend(r) ==
  /\ status = "asking"
  /\ r \in Resent
  /\ client < ClientTries(chain)
  /\ client' = client + 1
  /\ requests' = requests + 1
  /\ UNCHANGED <<chain, status, outer, prompt, inner, got>>

\* The adapter, or RAGAS, repeats the request.
RepeatRequest(r) ==
  /\ status = "asking"
  /\ r \in RepeatedInside(chain)
  /\ ClientSpent(r)
  /\ inner < InnerTries(chain)
  /\ inner' = inner + 1
  /\ client' = 1
  /\ requests' = requests + 1
  /\ UNCHANGED <<chain, status, outer, prompt, got>>

\* Variants of TryAgain: the work goes on where it was; the first try is not
\* counted.
TryRest(r) ==
  /\ status = "asking"
  /\ r \in RepeatedOutside(chain)
  /\ InnerSpent(r)
  /\ outer < OuterTries(chain)
  /\ outer' = outer + 1
  /\ Anew
  /\ requests' = requests + 1
  /\ UNCHANGED <<chain, status, got>>
TryOnceMore(r) ==
  /\ status = "asking"
  /\ r \in RepeatedOutside(chain)
  /\ InnerSpent(r)
  /\ outer <= OuterTries(chain)
  /\ outer' = outer + 1
  /\ Anew
  /\ got' = <<>>
  /\ requests' = requests + 1
  /\ UNCHANGED <<chain, status>>

\* The caller's loop begins again: what the try had obtained is lost.
TryAgain(r) ==
  /\ status = "asking"
  /\ r \in RepeatedOutside(chain)
  /\ InnerSpent(r)
  /\ outer < OuterTries(chain)
  /\ outer' = outer + 1
  /\ Anew
  /\ got' = <<>>
  /\ requests' = requests + 1
  /\ UNCHANGED <<chain, status>>

\* The last try failed: no answer, or NaN for everything that was asked.
GiveUp(r) ==
  /\ status = "asking"
  /\ r \in RepeatedOutside(chain)
  /\ InnerSpent(r)
  /\ outer = OuterTries(chain)
  /\ status' = "sentinel"
  /\ got' = <<>>
  /\ requests' = requests + 1
  /\ UNCHANGED <<chain, outer, prompt, inner, client>>

Escape(r) ==
  /\ status = "asking"
  /\ r \in Escaping(chain)
  /\ InnerSpent(r)
  /\ status' = "raised"
  /\ got' = <<>>
  /\ requests' = requests + 1
  /\ UNCHANGED <<chain, outer, prompt, inner, client>>

\* The result has been taken: the call is over.
HangUp ==
  /\ chain' = "generate"
  /\ status' = "idle"
  /\ outer' = 1
  /\ Anew
  /\ got' = <<>>
  /\ requests' = 0

CallStep ==
  \/ \E v \in Values : GetValue(v)
  \/ NextPrompt
  \/ \E r \in Failures :
       Spoiled(r) \/ Resend(r) \/ RepeatRequest(r) \/ TryAgain(r) \/ GiveUp(r) \/ Escape(r)

-----------------------------------------------------------------------------
(* The work a call makes for the servers, whatever they answer.  The loops  *)
(* are nested, and each multiplies the work of those inside it: one try of  *)
(* a batch sends a request per metric and sample, times the prompts of a    *)
(* metric, the tries of RAGAS and those of the client; the next try of the  *)
(* pass begins all of it again.                                             *)
RequestsBounded ==
  requests <= OuterTries(chain) * Units(chain) * Prompts(chain) * InnerTries(chain) * ClientTries(chain)

\* The values of a result are of one and the same try, the last one, and there
\* is one for each thing asked.
ValuesOfOneTry ==
  /\ \A i \in 1..Len(got) : got[i].of = outer
  /\ status = "values" => Len(got) = Units(chain)

\* The turn of a request among all those a call may make, in the order of the
\* loops, from the outermost one to the client's: try o, after g values, prompt
\* p, try i of the prompt, try k of the client.
Turn(c, o, g, p, i, k) ==
  ((((o - 1) * Units(c) + g) * Prompts(c) + p - 1) * InnerTries(c) + i - 1) * ClientTries(c) + k - 1

\* Where a call is.
InTurn ==
  /\ outer \in 1..OuterTries(chain)
  /\ prompt \in 1..Prompts(chain)
  /\ inner \in 1..InnerTries(chain)
  /\ client \in 1..ClientTries(chain)

\* The inductive invariant of a call: no turn is taken twice.
CallInv ==
  /\ CallTypeOK
  /\ ValuesOfOneTry
  /\ status \in {"idle", "asking"} => InTurn
  /\ status = "asking" => /\ Len(got) < Units(chain)
                          /\ requests <= Turn(chain, outer, Len(got), prompt, inner, client)
  /\ RequestsBounded

=============================================================================
