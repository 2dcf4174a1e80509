---------------------------- MODULE PolicyEngine ----------------------------
(* policy.Engine: requests evaluate the prepared policy under a read lock    *)
(* while the polling goroutines of its sources replace it.  A poll is not    *)
(* atomic: the source can change between the Stat that notices a change, the *)
(* read, and the second Stat, under the lock, that says what was read.       *)
(* What a policy answers is left open here: only a false or an object whose  *)
(* allow is false denies, and Gateway's CheckPolicy has both outcomes.       *)
EXTENDS Integers

CONSTANTS
    Requests,           \* the goroutines that evaluate
    Configurations,     \* sets of sources the engine may be configured with
    MaxEdits,           \* bound: how often a source is edited
    None                \* nothing held, no evaluation

Source == {"file", "url"}   \* OPA_POLICY_FILE; OPA_POLICY_URL, when it is a URL

ASSUME EngineAssumption ==
    /\ Configurations \subseteq SUBSET Source
    /\ MaxEdits \in Nat

VARIABLES
    phase,          \* "starting" (the policy is loaded), "running", "stopped"
    sources,        \* the sources configured; none: inline or default policy
    content,        \* content[s]: what source s holds (external)
    prepared,       \* Engine.prepared
    lastModTime,    \* Engine.lastModTime, as the version of the file it dates
    watcher,        \* watcher[s]: what the goroutine that polls s is at
    held,           \* held[s]: the compiled policy it wants to put in force
    evaluating,     \* evaluating[r]: the policy r evaluates, under the read lock
    newest          \* history: the newest version of each source put in force

vars == <<phase, sources, content, prepared, lastModTime, watcher, held,
          evaluating, newest>>

(* A text is a policy that compiles, one that does not, or empty.  A later   *)
(* edit has a later modification time, so a version stands for its time.     *)
Kind == {"good", "broken", "empty"}

Content == [version : 0..MaxEdits, kind : Kind]

(* A prepared policy knows where it came from; "inline" stands for a policy  *)
(* given inline and for the default one.                                     *)
Policy(s, c) == [from |-> s, version |-> c.version, kind |-> c.kind]

PoliciesOf(S) == {Policy(s, c) : s \in S, c \in Content}

Inline == Policy("inline", [version |-> 0, kind |-> "good"])

(* The file comes before the URL when the engine starts. *)
First == IF "file" \in sources THEN "file" ELSE "url"

(* loadPolicy has just read its source.  A policy that does not compile ends *)
(* the program here, and an empty one is replaced by the default.            *)
Init ==
    /\ phase = "starting"
    /\ sources \in Configurations
    /\ content \in [Source -> {[version |-> 0, kind |-> k] : k \in {"good", "empty"}}]
    /\ prepared = IF sources # {} /\ content[First].kind = "good"
                  THEN Policy(First, content[First]) ELSE Inline
    /\ lastModTime = 0
    /\ watcher = [s \in Source |-> "off"]
    /\ held = [s \in Source |-> None]
    /\ evaluating = [r \in Requests |-> None]
    /\ newest = [s \in Source |-> 0]

-----------------------------------------------------------------------------
(* loadPolicy's Stat, after the read, which may fail and leaves the zero     *)
(* time then; then a goroutine for each source.                              *)
Start ==
    /\ phase = "starting"
    /\ phase' = "running"
    /\ lastModTime' \in IF "file" \in sources THEN {0, content["file"].version} ELSE {0}
    /\ watcher' = [s \in Source |-> IF s \in sources THEN "waiting" ELSE "off"]
    /\ UNCHANGED <<sources, content, prepared, held, evaluating, newest>>

(* Somebody edits a source (external). *)
Edit(s) ==
    /\ s \in sources
    /\ content[s].version < MaxEdits
    /\ \E k \in Kind :
        content' = [content EXCEPT ![s] = [version |-> @.version + 1, kind |-> k]]
    /\ UNCHANGED <<phase, sources, prepared, lastModTime, watcher, held, evaluating, newest>>

Goto(s, step) == watcher' = [watcher EXCEPT ![s] = step]

(* Mutant: the change is marked as seen when it is noticed. *)
PollMarking(s) ==
    /\ watcher[s] = "waiting"
    /\ s = "file" => content["file"].version > lastModTime
    /\ lastModTime' = IF s = "file" THEN content["file"].version ELSE lastModTime
    /\ Goto(s, "reading")
    /\ UNCHANGED <<phase, sources, content, prepared, held, evaluating, newest>>

(* A tick.  The file is read if its time is later than the last one seen (a  *)
(* failed Stat, or an unchanged time, leaves the watcher waiting); the URL   *)
(* is fetched at every tick.  With both sources the two goroutines share one *)
(* ticker, so a tick is for either; and lastModTime is read without the      *)
(* lock, which can only make a poll see the old or the new value.            *)
Poll(s) ==
    /\ watcher[s] = "waiting"
    /\ s = "file" => content["file"].version > lastModTime
    /\ Goto(s, "reading")
    /\ UNCHANGED <<phase, sources, content, prepared, lastModTime, held, evaluating, newest>>

(* Mutant: the goroutine returns where it should wait for the next tick. *)
ReadInVainAndReturn(s) ==
    /\ watcher[s] = "reading"
    /\ Goto(s, "exited")
    /\ UNCHANGED <<phase, sources, content, prepared, lastModTime, held, evaluating, newest>>

(* The read or the fetch fails, or what it got is empty or does not compile: *)
(* nothing changes.                                                          *)
ReadInVain(s) ==
    /\ watcher[s] = "reading"
    /\ Goto(s, "waiting")
    /\ UNCHANGED <<phase, sources, content, prepared, lastModTime, held, evaluating, newest>>

(* Mutant: what was read is taken as it is. *)
ReadUnchecked(s) ==
    /\ watcher[s] = "reading"
    /\ held' = [held EXCEPT ![s] = Policy(s, content[s])]
    /\ Goto(s, "locking")
    /\ UNCHANGED <<phase, sources, content, prepared, lastModTime, evaluating, newest>>

(* Mutant: the text itself is handed on, not what it compiles to. *)
ReadUncompiled(s) ==
    /\ watcher[s] = "reading"
    /\ content[s].kind = "good"
    /\ held' = [held EXCEPT ![s] = content[s]]
    /\ Goto(s, "locking")
    /\ UNCHANGED <<phase, sources, content, prepared, lastModTime, evaluating, newest>>

(* The source is read, its policy compiles, and applyPolicy asks for the     *)
(* write lock.                                                               *)
Read(s) ==
    /\ watcher[s] = "reading"
    /\ content[s].kind = "good"
    /\ held' = [held EXCEPT ![s] = Policy(s, content[s])]
    /\ Goto(s, "locking")
    /\ UNCHANGED <<phase, sources, content, prepared, lastModTime, evaluating, newest>>

(* Mutant: the policy is replaced without the lock. *)
SwapUnlocked(s) ==
    /\ watcher[s] = "locking"
    /\ prepared' = held[s]
    /\ lastModTime' = IF "file" \in sources THEN content["file"].version ELSE lastModTime
    /\ newest' = [newest EXCEPT ![s] = held[s].version]
    /\ held' = [held EXCEPT ![s] = None]
    /\ Goto(s, "waiting")
    /\ UNCHANGED <<phase, sources, content, evaluating>>

(* The write lock is held: the new policy is put in force and the file, if   *)
(* one is configured, is asked for its time, which may fail.                 *)
Swap(s) ==
    /\ watcher[s] = "locking"
    /\ \A r \in Requests : evaluating[r] = None
    /\ prepared' = held[s]
    /\ \/ "file" \in sources /\ lastModTime' = content["file"].version
       \/ UNCHANGED lastModTime
    /\ newest' = [newest EXCEPT ![s] = held[s].version]
    /\ held' = [held EXCEPT ![s] = None]
    /\ Goto(s, "waiting")
    /\ UNCHANGED <<phase, sources, content, evaluating>>

(* Evaluate takes the read lock, which a waiting writer keeps from it. *)
BeginEvaluate(r) ==
    /\ phase # "starting"
    /\ evaluating[r] = None
    /\ \A s \in Source : watcher[s] # "locking"
    /\ evaluating' = [evaluating EXCEPT ![r] = prepared]
    /\ UNCHANGED <<phase, sources, content, prepared, lastModTime, watcher, held, newest>>

EndEvaluate(r) ==
    /\ evaluating[r] # None
    /\ evaluating' = [evaluating EXCEPT ![r] = None]
    /\ UNCHANGED <<phase, sources, content, prepared, lastModTime, watcher, held, newest>>

(* Stop: pollDone is closed. *)
Stop ==
    /\ phase = "running"
    /\ phase' = "stopped"
    /\ UNCHANGED <<sources, content, prepared, lastModTime, watcher, held, evaluating, newest>>

(* Mutant: Stop sends one message instead of closing the channel. *)
ReturnOne(s) ==
    /\ phase = "stopped"
    /\ watcher[s] = "waiting"
    /\ \A t \in Source : watcher[t] # "exited"
    /\ Goto(s, "exited")
    /\ UNCHANGED <<phase, sources, content, prepared, lastModTime, held, evaluating, newest>>

(* A watcher's select finds pollDone closed.  With a tick waiting as well it *)
(* may take the tick first.                                                  *)
Return(s) ==
    /\ phase = "stopped"
    /\ watcher[s] = "waiting"
    /\ Goto(s, "exited")
    /\ UNCHANGED <<phase, sources, content, prepared, lastModTime, held, evaluating, newest>>

Next ==
    \/ Start \/ Stop
    \/ \E s \in Source :
        Edit(s) \/ Poll(s) \/ ReadInVain(s) \/ Read(s) \/ Swap(s) \/ Return(s)
    \/ \E r \in Requests : BeginEvaluate(r) \/ EndEvaluate(r)

(* The ticker ticks for every watcher (goroutines that wait on one channel   *)
(* are served in order), evaluations end, a waiting writer gets its lock, a  *)
(* source that is asked again and again is read at last, and so is the end   *)
(* of polling.                                                               *)
Fairness ==
    /\ WF_vars(Start)
    /\ \A r \in Requests : WF_vars(EndEvaluate(r))
    /\ \A s \in Source :
        /\ WF_vars(Poll(s) \/ Swap(s) \/ Read(s) \/ ReadInVain(s))
        /\ SF_vars(Read(s)) /\ SF_vars(Return(s))

Spec == Init /\ [][Next]_vars /\ Fairness

-----------------------------------------------------------------------------
TypeOK ==
    /\ phase \in {"starting", "running", "stopped"}
    /\ sources \in Configurations
    /\ content \in [Source -> Content]
    /\ prepared \in PoliciesOf(Source \union {"inline"})
    /\ lastModTime \in 0..MaxEdits
    /\ watcher \in [Source -> {"off", "waiting", "reading", "locking", "exited"}]
    /\ held \in [Source -> PoliciesOf(Source) \union {None}]
    /\ evaluating \in [Requests -> PoliciesOf(Source \union {"inline"}) \union {None}]
    /\ newest \in [Source -> 0..MaxEdits]

(* The policy in force gives way only to one that compiles, and never to an  *)
(* older version of its source, whatever is edited while a poll is under way *)
(* (engine.go:198-286).                                                      *)
PolicyOnlyAdvances ==
    [][prepared' # prepared =>
        prepared'.kind = "good" /\ prepared'.version >= newest[prepared'.from]]_vars

(* An evaluation sees one policy from its start to its end, and the one in   *)
(* force (engine.go:142-145, 276-284).                                       *)
StableWhileEvaluating ==
    \A r \in Requests : evaluating[r] # None => evaluating[r] = prepared

(* With the file as only source, an edit made while no reload is under way   *)
(* takes effect, unless it does not compile or is edited again: failing      *)
(* Stats, reads and a stream of evaluations only delay it                    *)
(* (engine.go:198-239, 268-286).                                             *)
Alone(s) == sources = {s} /\ phase = "running"

InForceOrGone(s, v) ==
    \/ prepared = Policy(s, [version |-> v, kind |-> "good"])
    \/ content[s].version > v
    \/ phase = "stopped"

EditAtRestTakesEffect ==
    \A v \in 1..MaxEdits :
        /\ Alone("file") /\ watcher["file"] = "waiting"
        /\ content["file"] = [version |-> v, kind |-> "good"] /\ lastModTime < v
        ~> InForceOrGone("file", v)

(* With the URL as only source every edit takes effect, unless it does not   *)
(* compile or is edited again: a failed fetch is made up for by the next     *)
(* (engine.go:220-266).                                                      *)
UrlEditTakesEffect ==
    \A v \in 1..MaxEdits :
        /\ Alone("url") /\ content["url"] = [version |-> v, kind |-> "good"]
        ~> InForceOrGone("url", v)

(* After Stop every polling goroutine returns (engine.go:108-119, 198-231). *)
StopEndsWatchers ==
    phase = "stopped" ~> \A s \in Source : watcher[s] \in {"off", "exited"}

(* docs/adr/010-opa-hot-reload.md:22: "Policy changes take effect within one *)
(* poll interval".  An edit between the read of the file and the Stat that   *)
(* follows it is taken for read and stays without effect (engine.go:268-286).*)
PolicyChangeTakesEffect ==
    \A v \in 1..MaxEdits :
        /\ Alone("file")
        /\ content["file"] = [version |-> v, kind |-> "good"] /\ lastModTime < v
        ~> InForceOrGone("file", v)
=============================================================================
