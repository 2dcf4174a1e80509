--------------------------- MODULE InspectorChain ---------------------------
(* Chain.runConcurrently: the goroutines of one screening call, repeated for *)
(* call after call.  The caller launches one goroutine per inspector and one *)
(* closer, then collects from a channel until it is closed.  The channel's   *)
(* buffer, the WaitGroup and the deferred Done are modelled one step each,   *)
(* so every order in which the goroutines can run is explored.               *)
EXTENDS Integers, Sequences, FiniteSets

CONSTANTS
    Inspectors,     \* the chain's inspectors
    Kind,           \* Kind[i]: which implementation i is
    None            \* no verdict, no block

ASSUME ChainAssumption ==
    /\ IsFiniteSet(Inspectors)
    /\ Kind \in [Inspectors -> {"regex", "model_armor", "dlp"}]
    /\ None \notin Inspectors \union {"pass", "block", "error"}

VARIABLES
    pc,             \* the caller: "idle", "launching", "collecting", "answered"
    task,           \* task[i]: how far inspector i's goroutine is
    verdict,        \* verdict[i]: what i returned in this call
    wg,             \* the WaitGroup's counter
    ch,             \* the channel's buffer: inspectors whose result is in it
    closed,         \* whether the channel is closed
    closer,         \* the goroutine that waits and closes: "none", "waiting", "done"
    blockResult,    \* the collector's variable
    crashed         \* a goroutine panicked: the process is gone

vars == <<pc, task, verdict, wg, ch, closed, closer, blockResult, crashed>>

(* The capacity the channel is made with. *)
N == Cardinality(Inspectors)

-----------------------------------------------------------------------------
(* How a remote inspector's round-trip can end: no reply (request, transport *)
(* or context error), a status other than 200, a body that is not JSON, a    *)
(* body without the result object, a result with no match, a match under no  *)
(* name the code knows, a match under a known name.                          *)
Reply == {"unreachable", "not_ok", "garbled", "no_result", "clean", "unnamed", "found"}

Failed == {"unreachable", "not_ok", "garbled"}

(* The first rule that matches blocks. *)
RegexVerdict(reply) == IF reply = "found" THEN "block" ELSE "pass"

ModelArmorVerdict(reply) ==
    CASE reply \in Failed  -> "error"
      [] reply = "found"   -> "block"
      [] OTHER             -> "pass"

(* Without a result object the unchecked type assertion panics. *)
DLPVerdict(reply) ==
    CASE reply \in Failed     -> "error"
      [] reply = "no_result"  -> "panic"
      [] reply = "found"      -> "block"
      [] OTHER                -> "pass"

Inspect(i, reply) ==
    CASE Kind[i] = "regex"        -> RegexVerdict(reply)
      [] Kind[i] = "model_armor"  -> ModelArmorVerdict(reply)
      [] OTHER                    -> DLPVerdict(reply)

(* The regex inspector asks nobody: its rules match or they do not. *)
Replies(i) == IF Kind[i] = "regex" THEN {"clean", "found"} ELSE Reply

-----------------------------------------------------------------------------
Init ==
    /\ pc = "idle"
    /\ task = [i \in Inspectors |-> "none"]
    /\ verdict = [i \in Inspectors |-> None]
    /\ wg = 0
    /\ ch = <<>>
    /\ closed = FALSE
    /\ closer = "none"
    /\ blockResult = None
    /\ crashed = FALSE

(* A handler screens a prompt or a response: fresh WaitGroup and channel. *)
Call ==
    /\ pc \in {"idle", "answered"}
    /\ pc' = "launching"
    /\ task' = [i \in Inspectors |-> "none"]
    /\ verdict' = [i \in Inspectors |-> None]
    /\ wg' = 0
    /\ ch' = <<>>
    /\ closed' = FALSE
    /\ closer' = "none"
    /\ blockResult' = None
    /\ UNCHANGED crashed

(* Mutant: the goroutine is launched without wg.Add. *)
LaunchWithoutAdd(i) ==
    /\ pc = "launching"
    /\ task[i] = "none"
    /\ task' = [task EXCEPT ![i] = "inspecting"]
    /\ UNCHANGED <<pc, verdict, wg, ch, closed, closer, blockResult, crashed>>

(* One turn of the launching loop: wg.Add(1), go func. *)
Launch(i) ==
    /\ pc = "launching"
    /\ task[i] = "none"
    /\ wg' = wg + 1
    /\ task' = [task EXCEPT ![i] = "inspecting"]
    /\ UNCHANGED <<pc, verdict, ch, closed, closer, blockResult, crashed>>

(* All launched: start the closer and turn to collecting. *)
StartCloser ==
    /\ pc = "launching"
    /\ \A i \in Inspectors : task[i] # "none"
    /\ closer' = "waiting"
    /\ pc' = "collecting"
    /\ UNCHANGED <<task, verdict, wg, ch, closed, blockResult, crashed>>

(* The inspector returns. *)
Return(i) ==
    /\ task[i] = "inspecting"
    /\ \E reply \in Replies(i) :
        \/ /\ Inspect(i, reply) # "panic"
           /\ verdict' = [verdict EXCEPT ![i] = Inspect(i, reply)]
           /\ task' = [task EXCEPT ![i] = "sending"]
           /\ UNCHANGED crashed
        \/ /\ Inspect(i, reply) = "panic"
           /\ crashed' = TRUE
           /\ UNCHANGED <<verdict, task>>
    /\ UNCHANGED <<pc, wg, ch, closed, closer, blockResult>>

(* The send on the buffered channel, which blocks while the buffer is full. *)
Send(i) ==
    /\ task[i] = "sending"
    /\ Len(ch) < N
    /\ ch' = Append(ch, i)
    /\ task' = [task EXCEPT ![i] = "sent"]
    /\ UNCHANGED <<pc, verdict, wg, closed, closer, blockResult, crashed>>

(* Mutant: Done is not deferred, and the error path returns before it. *)
DoneUnlessError(i) ==
    /\ task[i] = "sent"
    /\ wg' = IF verdict[i] = "error" THEN wg ELSE wg - 1
    /\ task' = [task EXCEPT ![i] = "done"]
    /\ UNCHANGED <<pc, verdict, ch, closed, closer, blockResult, crashed>>

(* The deferred wg.Done() as the goroutine returns. *)
Done(i) ==
    /\ task[i] = "sent"
    /\ wg' = wg - 1
    /\ task' = [task EXCEPT ![i] = "done"]
    /\ UNCHANGED <<pc, verdict, ch, closed, closer, blockResult, crashed>>

(* Mutant: the closer does not wait. *)
CloseWithoutWait ==
    /\ closer = "waiting"
    /\ closed' = TRUE
    /\ closer' = "done"
    /\ UNCHANGED <<pc, task, verdict, wg, ch, blockResult, crashed>>

(* wg.Wait() returns and the channel is closed. *)
Close ==
    /\ closer = "waiting"
    /\ wg = 0
    /\ closed' = TRUE
    /\ closer' = "done"
    /\ UNCHANGED <<pc, task, verdict, wg, ch, blockResult, crashed>>

(* Mutant: the last result received wins. *)
CollectLast ==
    /\ pc = "collecting"
    /\ ch # <<>>
    /\ ch' = Tail(ch)
    /\ blockResult' = IF verdict[Head(ch)] = "block" THEN Head(ch) ELSE None
    /\ UNCHANGED <<pc, task, verdict, wg, closed, closer, crashed>>

(* One turn of the collecting loop; the first block received is kept. *)
Collect ==
    /\ pc = "collecting"
    /\ ch # <<>>
    /\ ch' = Tail(ch)
    /\ blockResult' = IF verdict[Head(ch)] = "block" /\ blockResult = None
                      THEN Head(ch) ELSE blockResult
    /\ UNCHANGED <<pc, task, verdict, wg, closed, closer, crashed>>

(* The channel is closed and empty: runConcurrently returns. *)
Finish ==
    /\ pc = "collecting"
    /\ closed /\ ch = <<>>
    /\ pc' = "answered"
    /\ UNCHANGED <<task, verdict, wg, ch, closed, closer, blockResult, crashed>>

Goroutine(i) == Return(i) \/ Send(i) \/ Done(i)

Step ==
    \/ Call \/ StartCloser \/ Close \/ Collect \/ Finish
    \/ \E i \in Inspectors : Launch(i) \/ Goroutine(i)

Next == ~crashed /\ Step

(* Every goroutine that can run is scheduled; a remote round-trip ends (the  *)
(* HTTP client has a timeout).                                               *)
Fairness ==
    /\ \A i \in Inspectors : WF_vars(~crashed /\ (Launch(i) \/ Goroutine(i)))
    /\ WF_vars(~crashed /\ (StartCloser \/ Collect \/ Finish))
    /\ WF_vars(~crashed /\ Close)

Spec == Init /\ [][Next]_vars /\ Fairness

-----------------------------------------------------------------------------
TypeOK ==
    /\ pc \in {"idle", "launching", "collecting", "answered"}
    /\ task \in [Inspectors -> {"none", "inspecting", "sending", "sent", "done"}]
    /\ verdict \in [Inspectors -> {None, "pass", "block", "error"}]
    /\ wg \in 0..N
    /\ ch \in Seq(Inspectors) /\ Len(ch) <= N
    /\ closed \in BOOLEAN
    /\ closer \in {"none", "waiting", "done"}
    /\ blockResult \in Inspectors \union {None}
    /\ crashed \in BOOLEAN

(* No inspector ever sends on a closed channel (a panic in Go), and none is  *)
(* still running when the collector stops: the closer waits for the deferred *)
(* Dones, which come after the sends (inspector.go:73-98).                   *)
ClosedAfterLastSend ==
    closed => \A i \in Inspectors : task[i] = "done"

(* The chain implements Screening: it hears every inspector, answers a block *)
(* exactly when one blocked, and an error of a remote one counts as a pass   *)
(* (inspector.go:67-128).                                                    *)
Phase == IF crashed THEN "crashed"
         ELSE IF pc \in {"launching", "collecting"} THEN "screening" ELSE pc

Abstract == INSTANCE Screening
    WITH phase <- Phase, heard <- verdict,
         answer <- IF pc = "answered" THEN blockResult ELSE None
IsScreening == Abstract!ScreeningSpec

(* Every screening call returns, unless the process dies: the channel is     *)
(* closed after the last send and the collector drains it                    *)
(* (inspector.go:98-103).                                                    *)
Terminates == pc = "launching" ~> (pc = "answered" \/ crashed)

(* docs/operations.md:41: when an inspector cannot evaluate, "the request    *)
(* was allowed through (fail-open)".  A DLP reply without a result object    *)
(* ends the process instead (dlp.go:88).                                     *)
FailsOpen == ~crashed
=============================================================================
