------------------------------ MODULE Fallback ------------------------------
(***************************************************************************)
(* Requests that try the language model providers of a phase in order      *)
(* (services/llm/llm_service.py, services/llm/fallback_service.py), each   *)
(* behind a circuit breaker (services/llm/resilience.py), with the answers *)
(* and streams of the four shipped providers (services/llm/providers/):    *)
(* generate() turns every exception into a response with success = False,  *)
(* stream() yields an error event and raises.                              *)
(*                                                                         *)
(* llm_service and FallbackChain name their breakers differently, so they  *)
(* share none: a behaviour is about one of them.                           *)
(***************************************************************************)
EXTENDS Naturals, Sequences

CONSTANTS
    Callers,
    Streaming,        \* the callers that stream
    Providers,        \* the length of the chain, primary first
    FailureThreshold,
    RecoverySeconds,
    MaxRetries,
    LastSecond        \* bound on the clock

ASSUME FallbackAssumption ==
    /\ Streaming \subseteq Callers
    /\ Providers \in Nat \ {0}
    /\ FailureThreshold \in Nat \ {0}
    /\ RecoverySeconds \in Nat /\ MaxRetries \in Nat /\ LastSecond \in Nat

VARIABLES
    chained,      \* FallbackChain, rather than llm_service
    second,
    breaker,      \* of each provider
    doing,        \* where a caller stands
    trying,       \* the provider a caller has come to
    tries,        \* its calls to that provider
    received,     \* what a caller was given, repetitions left out
    logFailed,    \* history: the usage row of a finished answer failed
    overdue       \* history: a success came in while the breaker was open

fallbackVars == <<chained, second, breaker, doing, trying, tries, received, logFailed, overdue>>

Chain == 1 .. Providers
Item == [from : Chain, what : {"answer", "error response", "text", "error", "end"}]

FallbackTypeOK ==
    /\ chained \in BOOLEAN
    /\ second \in 0 .. LastSecond
    /\ breaker \in [Chain -> [state : {"closed", "open", "half_open"}, failures : Nat, failedAt : 0 .. LastSecond]]
    /\ doing \in [Callers -> {"idle", "allow", "call", "stream", "first", "good", "bad", "rejected",
                           "log", "log failure", "answered", "raised"}]
    /\ trying \in [Callers -> 1 .. Providers + 1]
    /\ tries \in [Callers -> 0 .. MaxRetries + 1]
    /\ \A c \in Callers : \A i \in 1 .. Len(received[c]) : received[c][i] \in Item
    /\ logFailed \subseteq Callers
    /\ overdue \subseteq Chain

FallbackInit ==
    /\ chained \in BOOLEAN
    /\ second = 0
    /\ breaker = [p \in Chain |-> [state |-> "closed", failures |-> 0, failedAt |-> 0]]
    /\ doing = [c \in Callers |-> "idle"]
    /\ trying = [c \in Callers |-> 1]
    /\ tries = [c \in Callers |-> 0]
    /\ received = [c \in Callers |-> <<>>]
    /\ logFailed = {}
    /\ overdue = {}

-----------------------------------------------------------------------------

Answered(c) == doing[c] \in {"answered", "raised"}

Goto(c, to) == doing' = [doing EXCEPT ![c] = to]

(* Mutant: the tries of the provider before are not forgotten. *)
GoNext_Counting(c) ==
    /\ trying' = [trying EXCEPT ![c] = @ + 1]
    /\ UNCHANGED tries
    /\ Goto(c, IF trying[c] = Providers THEN "raised" ELSE "allow")

GoNext(c) ==
    /\ trying' = [trying EXCEPT ![c] = @ + 1]
    /\ tries' = [tries EXCEPT ![c] = 0]
    /\ Goto(c, IF trying[c] = Providers THEN "raised" ELSE "allow")

Give(c, what) ==
    LET item == [from |-> trying[c], what |-> what] IN
    received' = [received EXCEPT ![c] =
        IF @ # <<>> /\ @[Len(@)] = item THEN @ ELSE Append(@, item)]

(***************************************************************************)
(* CircuitBreaker; its lock makes each of these one step.                  *)
(***************************************************************************)
Allows(p) ==
    \/ breaker[p].state # "open"
    \/ second >= breaker[p].failedAt + RecoverySeconds

AllowRequest(p) ==
    breaker' = [breaker EXCEPT ![p].state = IF @ = "open" THEN "half_open" ELSE @]

RecordSuccess(p) ==
    /\ breaker' = [breaker EXCEPT ![p].failures = 0,
                                  ![p].state = IF @ = "half_open" THEN "closed" ELSE @]
    /\ overdue' = CASE breaker[p].state = "open" -> overdue \cup {p}
                 [] breaker[p].state = "half_open" -> overdue \ {p}
                 [] OTHER -> overdue

(* Mutant: the count starts anew with every opening. *)
RecordFailure_Resets(p) ==
    LET n == breaker[p].failures + 1 IN
    /\ breaker' = [breaker EXCEPT ![p] =
          [state |-> IF n >= FailureThreshold THEN "open" ELSE @.state,
           failures |-> IF n >= FailureThreshold THEN 0 ELSE n, failedAt |-> second]]
    /\ overdue' = IF n >= FailureThreshold THEN overdue \ {p} ELSE overdue

(***************************************************************************)
(* The count is not bounded; nothing asks for more than the threshold.     *)
(***************************************************************************)
RecordFailure(p) ==
    LET n == breaker[p].failures + 1 IN
    /\ breaker' = [breaker EXCEPT ![p] =
          [state |-> IF n >= FailureThreshold THEN "open" ELSE @.state,
           failures |-> IF n > FailureThreshold THEN FailureThreshold ELSE n,
           failedAt |-> second]]
    /\ overdue' = IF n >= FailureThreshold THEN overdue \ {p} ELSE overdue

-----------------------------------------------------------------------------

BeginChain(c) ==
    /\ doing[c] = "idle" \/ Answered(c)
    /\ trying' = [trying EXCEPT ![c] = 1]
    /\ tries' = [tries EXCEPT ![c] = 0]
    /\ received' = [received EXCEPT ![c] = <<>>]
    /\ logFailed' = logFailed \ {c}
    /\ Goto(c, "allow")
    /\ UNCHANGED <<chained, second, breaker, overdue>>

(***************************************************************************)
(* A provider that is refused is passed by, but for llm_service.generate,  *)
(* where the CircuitOpenError counts as one more failure.                  *)
(***************************************************************************)
Ask(c) ==
    /\ doing[c] = "allow"
    /\ IF Allows(trying[c])
       THEN /\ AllowRequest(trying[c])
            /\ tries' = [tries EXCEPT ![c] = @ + 1]
            /\ Goto(c, IF c \in Streaming THEN "stream" ELSE "call")
            /\ UNCHANGED trying
       ELSE /\ IF chained \/ c \in Streaming THEN GoNext(c)
               ELSE Goto(c, "bad") /\ UNCHANGED <<trying, tries>>
            /\ UNCHANGED breaker
    /\ UNCHANGED <<chained, second, received, logFailed, overdue>>

(* Mutant: llm_service, too, takes any response for an answer. *)
Respond_Unchecked(c) ==
    /\ doing[c] = "call"
    /\ \E what \in {"answer", "error response"} : Give(c, what)
    /\ Goto(c, "good")
    /\ UNCHANGED <<chained, second, breaker, trying, tries, logFailed, overdue>>

(***************************************************************************)
(* The provider answers.  FallbackChain does not look at response.success. *)
(***************************************************************************)
Respond(c) ==
    /\ doing[c] = "call"
    /\ \/ Give(c, "answer") /\ Goto(c, "good")
       \/ IF chained THEN Give(c, "error response") /\ Goto(c, "good")
          ELSE Goto(c, "bad") /\ UNCHANGED received
    /\ UNCHANGED <<chained, second, breaker, trying, tries, logFailed, overdue>>

(***************************************************************************)
(* llm_service bounds a call in time and retries, asking the breaker again.*)
(***************************************************************************)
Timeout(c) ==
    /\ doing[c] = "call" /\ ~ chained
    /\ Goto(c, IF tries[c] > MaxRetries THEN "bad" ELSE "allow")
    /\ UNCHANGED <<chained, second, breaker, trying, tries, received, logFailed, overdue>>

Started(c) == \E i \in 1 .. Len(received[c]) : received[c][i].from = trying[c]

(***************************************************************************)
(* FallbackChain records the success with the first event, llm_service     *)
(* with the last.                                                          *)
(***************************************************************************)
StreamText(c) ==
    /\ doing[c] = "stream"
    /\ Give(c, "text")
    /\ Goto(c, IF chained /\ ~ Started(c) THEN "first" ELSE "stream")
    /\ UNCHANGED <<chained, second, breaker, trying, tries, logFailed, overdue>>

StreamEnds(c) ==
    /\ doing[c] = "stream"
    /\ chained => Started(c)
    /\ Give(c, "end")
    /\ Goto(c, IF chained THEN "answered" ELSE "good")
    /\ UNCHANGED <<chained, second, breaker, trying, tries, logFailed, overdue>>

(* Mutant: the error event is swallowed. *)
StreamBreaks_Silently(c) ==
    /\ doing[c] = "stream"
    /\ Goto(c, "bad")
    /\ UNCHANGED <<chained, second, breaker, trying, tries, received, logFailed, overdue>>

(***************************************************************************)
(* The error event reaches the caller, unless FallbackChain meets it first *)
(* of all; after the first event it tells a client error (4xx) apart.      *)
(***************************************************************************)
StreamBreaks(c) ==
    /\ doing[c] = "stream"
    /\ IF chained /\ ~ Started(c)
       THEN Goto(c, "bad") /\ UNCHANGED received
       ELSE /\ Give(c, "error")
            /\ Goto(c, "bad") \/ (chained /\ Goto(c, "rejected"))
    /\ UNCHANGED <<chained, second, breaker, trying, tries, logFailed, overdue>>

Succeed(c) ==
    /\ doing[c] \in {"good", "first", "rejected"}
    /\ RecordSuccess(trying[c])
    /\ Goto(c, CASE doing[c] = "first" -> "stream"
                 [] doing[c] = "rejected" -> "raised"
                 [] doing[c] = "good" -> IF chained THEN "answered" ELSE "log")
    /\ UNCHANGED <<chained, second, trying, tries, received, logFailed>>

FailOver(c) ==
    /\ doing[c] = "bad"
    /\ RecordFailure(trying[c])
    /\ IF chained THEN GoNext(c) ELSE Goto(c, "log failure") /\ UNCHANGED <<trying, tries>>
    /\ UNCHANGED <<chained, second, received, logFailed>>

(***************************************************************************)
(* The usage row, the event and the parsing of the answer come after the   *)
(* success, inside the same try.                                           *)
(***************************************************************************)
LogUsage(c) ==
    /\ doing[c] = "log"
    /\ \/ Goto(c, "answered") /\ UNCHANGED logFailed
       \/ Goto(c, "bad") /\ logFailed' = logFailed \cup {c}
    /\ UNCHANGED <<chained, second, breaker, trying, tries, received, overdue>>

LogFailure(c) ==
    /\ doing[c] = "log failure"
    /\ GoNext(c) \/ (Goto(c, "raised") /\ UNCHANGED <<trying, tries>>)
    /\ UNCHANGED <<chained, second, breaker, received, logFailed, overdue>>

(***************************************************************************)
(* The caller goes away: no breaker hears of it.                           *)
(***************************************************************************)
Cancel(c) ==
    /\ doing[c] # "idle" /\ ~ Answered(c)
    /\ Goto(c, "raised")
    /\ UNCHANGED <<chained, second, breaker, trying, tries, received, logFailed, overdue>>

SecondPasses ==
    /\ second < LastSecond
    /\ second' = second + 1
    /\ UNCHANGED <<chained, breaker, doing, trying, tries, received, logFailed, overdue>>

FallbackNext ==
    \/ \E c \in Callers :
          \/ BeginChain(c) \/ Ask(c) \/ Respond(c) \/ Timeout(c)
          \/ StreamText(c) \/ StreamEnds(c) \/ StreamBreaks(c)
          \/ Succeed(c) \/ FailOver(c) \/ LogUsage(c) \/ LogFailure(c) \/ Cancel(c)
    \/ SecondPasses

FallbackSpec == FallbackInit /\ [][FallbackNext]_fallbackVars

-----------------------------------------------------------------------------

(***************************************************************************)
(* A breaker that has been tried again after its pause opens again with    *)
(* the first failure, unless a late success of a call let in earlier reset *)
(* the count while it was open; one that is closed is below the threshold. *)
(***************************************************************************)
OneFailureReopens ==
    \A p \in Chain :
        /\ breaker[p].state = "half_open" /\ p \notin overdue => breaker[p].failures + 1 >= FailureThreshold
        /\ breaker[p].state = "closed" => breaker[p].failures < FailureThreshold

(***************************************************************************)
(* A stream goes over to another provider only after an error event,       *)
(* unless llm_service could not log a stream that had ended.               *)
(***************************************************************************)
NoSilentSwitch ==
    \A c \in Streaming : \A i \in 1 .. Len(received[c]) - 1 :
        received[c][i].from # received[c][i + 1].from =>
            received[c][i].what = "error" \/ c \in logFailed

(***************************************************************************)
(* llm_service never passes a provider's error response off as an answer.  *)
(***************************************************************************)
AnswerEarned ==
    \A c \in Callers :
        ~ chained /\ doing[c] = "answered" => received[c] # <<>> /\ received[c][Len(received[c])].what \in {"answer", "end"}

FallbackSafe ==
    /\ OneFailureReopens
    /\ NoSilentSwitch
    /\ AnswerEarned
=============================================================================
