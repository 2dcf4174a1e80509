# A TLA+ model of bulwarkai

bulwarkai is an HTTP proxy in front of Vertex AI. It accepts OpenAI, Anthropic
and native Vertex requests, authenticates the caller, asks a policy, screens the
prompt, calls Vertex AI through a circuit breaker, screens the reply (depending
on the response mode), logs what it did and reports blocks to a webhook. This
directory specifies its concurrent parts and the texts that flow through them in
TLA+, checks them with TLC and proves all of their safety properties with TLAPS.
Everything is written from the Go source; `PROJECT.json` names, for every
definition, the lines it stands for.

## The system

| Part | State it keeps | Operations | Talks to |
|---|---|---|---|
| circuit breaker (`internal/circuitbreaker`) | state, failures, successes, lastFailure, one mutex | Allow, RecordSuccess, RecordFailure | called by the vertex client |
| vertex client (`internal/vertex/client.go`) | the breaker | CallJSON, CallJSONForModel, CallStream, CallStreamRaw | Vertex AI; called by handlers |
| demo client (`internal/vertex/demo.go`) | none | the same four calls, with canned replies | called by handlers |
| inspector chain (`internal/inspector/inspector.go`) | per call: WaitGroup, buffered channel | ScreenPrompt, ScreenResponse (runConcurrently) | the inspectors; called by handlers |
| inspectors (`regex.go`, `modelarmor.go`, `dlp.go`) | none | InspectPrompt, InspectResponse | Model Armor, DLP |
| handlers (`internal/handler`) | per request: pc, body, reply | ServeOpenAI, ServeAnthropic, ServeVertexCompat, ServeVertexProject, middlewares, logAction, auditResponse | all of the above and below |
| authentication (`internal/auth`) | none | Authenticate, CheckUserAgent, ExtractEmailFromJWT | the token info service |
| webhook notifier (`internal/webhook`) | bounded queue, done channel, one worker | Start, Notify, Stop | the webhook endpoint; called by logAction and main |
| rate limiter (`internal/ratelimit`) | one window per email, one mutex | Allow, Cleanup | called by a middleware and by a goroutine of main |
| policy engine (`internal/policy`) | prepared policy under a RWMutex, lastModTime, ticker | Evaluate, Stop, file and URL polling | a file, a URL; called by handlers and main |
| start and shutdown (`main.go`) | a signal | wiring; policy Stop, webhook Stop, server Shutdown | everything |
| configuration (`internal/config`) | read once | Load, normalizeMode | the environment |
| streaming (`internal/streaming`) | per stream: a 32K buffer, whether a message is open, the accumulated text | StreamGeminiAs..., Write...SSE, ParseGeminiChunk | the handlers' writers |
| translation (`internal/translate`) | none | prompt extraction, message translation | called by handlers and streaming; pure |
| tracing, metrics, generated API docs, site, Terraform | | | read by nothing in the program |

What is hard in it: request goroutines share the breaker, the limiter, the
policy and the queue, and every one of those is left between two steps of a
request; a screening is itself a fan-out of goroutines; policy reloads read,
compile and stat with the source changing underneath; the limiter is cleaned
from another goroutine against a clock; shutdown stops the parts while requests
still run; what must be screened before it is sent depends on mode, format and
streaming, over seven functions; the prompt that is screened and the turns that
are sent are extracted by different loops; and a stream is translated from reads
that end anywhere in a line. `PROJECT.json` lists these hazards line by
line with the properties that cover them.

## The modules

    CallGate <-- VertexClient --> CircuitBreaker      Shutdown --> Notifier
       ^
       |                                              InspectorChain --> Screening
    Gateway <-- Exchange --> Streaming --> Translate
                                                      RateLimiter   PolicyEngine

An arrow leads to what a module is built from or implements. The theorems about
a module `X` are in `XProofs`: `VertexClientProofs`, `GatewayProofs`,
`ShutdownProofs`, `InspectorChainProofs`, `RateLimiterProofs`,
`PolicyEngineProofs` and `ExchangeProofs`. `TextProofs` has the lemmas about the
operators of Translate and Streaming that the last one rests on.

* **CircuitBreaker** has the breaker's fields and one operator per method. The
  methods run under one mutex, so each is one atomic step. `lastFailure` is kept
  as its age in ticks, up to the first tick past the timeout: Allow asks for no
  more. **VertexClient** adds the callers: Allow (`Begin`, `Refuse`), the
  unlocked round-trip, Record (`End`). The four call methods have the same
  steps. A call may end as a success, as a client error (below 500, counted
  neither way) or as a server error, which is everything else, a client that
  hung up included (`shouldTripBreaker`).
* **CallGate** is what the breaker promises its callers, without counters and
  clock. VertexClient implements it (`IsCallGate`, checked and proved), and
  Gateway uses it in the breaker's place.
* **InspectorChain** has the goroutines of one screening: the caller that
  launches and collects, one goroutine per inspector with its send and its
  deferred Done, the closer, the WaitGroup's count and the channel's buffer.
  Each inspector's verdict is computed from the kind of reply its backend gives
  (`RegexVerdict`, `ModelArmorVerdict`, `DLPVerdict`); the DLP inspector panics
  on a reply without a result object. **Screening** is what the chain promises:
  all are heard, a block is reported iff some inspector blocks, errors count as
  passes. InspectorChain implements it (`IsScreening`). Gateway's screening
  steps are Screening with its phases folded into one; the crash is left to
  InspectorChain.
* **Gateway** has the life of a request from the middlewares to the answer.
  `pc[r]` is the handler's position, `req[r]` what it has read, `reply[r]` what
  Vertex AI sent, `logged[r]` the actions passed to logAction, `answer[r]` what
  the client got. The two chat handlers take the same steps; the native one asks
  the policy before it parses, screens unless it streams and ignores the mode.
  A text breaks a local regex rule or not ("local", "clean"); remote inspectors
  may block a clean text. Rate limiter, policy and authentication are choices
  here, each with all its outcomes.
* **Translate** has `internal/translate` as operators: what a handler takes for
  the prompt, what it sends to Gemini, what it takes out of a reply. A text is a
  sequence of pieces: an ordinary word, the two halves of a secret which a rule
  of the regex inspector blocks when they meet, and the space that joins texts.
  A content is a string or a list of blocks with and without text.
* **Streaming** has the translating loops of `internal/streaming`: what one line
  of Gemini's stream makes of the loop's state (a message open or not, the text
  accumulated, the events written), and which lines a read holds. The loops are
  recursive functions over the lines of a read. Offsets count
  half lines, so a read can end between two lines (an even offset) or inside one
  (an odd one); `cuts` are the offsets where reads end. Each read is split into
  lines on its own: the fragments of a line that a read ends in are no JSON and
  silent.
* **Exchange** is one request with what it carries, from the body to the last
  event. It has Gateway's steps, but every branch on a text is decided by the
  text: `prompt`, `sent` (the turns), `reply`, `writer` (the loop's state),
  `screened` (what the chain was given of the reply). A refusal is logged and
  then written (`Refuse`), a stream is read in as many steps as its cuts make,
  and `passed` counts the events that have left net/http's buffer, which happens
  when it is full or the handler has returned (`PassOn`). A demo client answers
  with its canned replies and never fails. Exchange implements Gateway for a
  single request (`ImplementsGateway`): the mapping reduces each text to whether
  it breaks the rule, the events to the answer, and reads to stutters.
* **Notifier** has the webhook queue and its worker; **Shutdown** puts handlers
  and main around it, and the death of the process at any moment (`Die`: the
  server's goroutine calls os.Exit when it fails, and an inspector may panic). `fate[e]` says where an event is and how it ended;
  `early` remembers the events queued before Stop was called.
* **RateLimiter** has the windows, the clock, the cleanup ticker with its
  one-place channel and, as history, the set of the requests of the last window
  that were let through, each with its age and its number within its tick.
* **PolicyEngine** has the policy in force, the two sources, and one goroutine
  per source whose poll is three steps (notice, read, swap), with evaluations
  under the read lock. A version stands for a modification time.

Each `MCx` module gives the constants of `x` their values for TLC. Operators
with a comment that begins "Mutant" are plausible mistakes in the definition
that follows them; substituted for it, they make TLC find the property violated
that `PROJECT.json` lists them with.

## What TLC checks

| Run | Instance | Shows |
|---|---|---|
| VertexClient | 3 callers, threshold 2, timeout 1 tick | the count and the state agree; half-open is never stuck; the gate is implemented; an open circuit is probed and, once the service stays up, closes for good |
| InspectorChain | regex, Model Armor and DLP inspectors, call after call | no send on a closed channel, every call returns, the answer is Screening's |
| Gateway | 2 requests, all modes, a queue of 1 | prompts are screened before the call and replies before they are sent where the mode says so; log and answer agree; every request is answered; audit reports |
| Shutdown | 3 events, a queue of 1, 1 retry, a signal or a death at any moment | events are in one place, delivered boundedly often and settled unless the process dies; Stop settles all queued before it and returns |
| RateLimiter | 2 keys, limit 2, window 2 ticks | the limit per window, twice the limit per span, invisible cleanup, readmission, no expired entry for ever |
| PolicyEngine | all source combinations, 2 edits each, 2 requests | evaluations see one policy; it only advances and only to what compiles; edits take effect; Stop ends the polling |
| Exchange | 1 request of 9 bodies in every format and mode, streams cut everywhere | every turn sent was in the screened prompt; a stream loses text only where a read ends inside a line; its events form whole messages; the text screened is the text delivered; the request is one of Gateway's |

Five more runs confront the code with a sentence of its documentation; TLC finds
each sentence false.

| Run | The document says | The code |
|---|---|---|
| AccumulatesFullText | audit mode accumulates the full text (design.md) | a line that a read of the stream ends in is lost to client and audit |
| SentBeforeAudit | the response has already been sent when the audit runs (design.md) | nothing flushes the stream: its last events leave the buffer when the handler returns, after the audit |
| FailsOpen | an inspector that cannot evaluate passes (operations.md) | a DLP reply without `result` panics in a goroutine and ends the process |
| NoRequestAborted | RATE_LIMIT=0 disables rate limiting (configuration.md) | a nil `*Limiter` in a non-nil interface panics for every JWT with an email |
| PolicyChangeTakesEffect | a policy change takes effect within a poll interval (ADR 010) | an edit between the read and the Stat after it counts as loaded |

Four more differences between documents and code are in the models, without a
run of their own:

* ADR 013 speaks of consecutive failures; a success leaves the count as it is
  while the circuit is closed (`circuitbreaker.go:79`, `RecordSuccess`).
* ADR 013 speaks of a single probe request; every caller passes while the circuit
  is half-open (`circuitbreaker.go:69`, `Allow`).
* ADR 012 says that events queued at termination time are sent.
  `StopSettlesEarlyEvents` shows it for those queued before Stop is called; the
  worker stops before the server drains its requests (`main.go:131`), so an
  event one of these raises afterwards stays in the queue.
* design.md:198 says that the system messages of an OpenAI request are passed
  on. Of several only the last is, and only if its content is a string
  (`openai.go:65`, `SystemMessage`); all are screened.

### Bounds

* `FailureCap` (3) caps `failures`; the code compares it only with the
  threshold, 2, so the values beyond are alike.
* Ages stop one tick past the timeout or the window and `count` one past the
  limit, for the same reason: they are only compared. A window of two ticks has
  requests in its first, its middle and its last tick; the limit of 2 has a
  first, a counted and a refused request.
* Three callers allow one probe, one late result and one refused call at once;
  two requests are enough for every pair of steps to interleave, and Gateway's
  invariants are proved for any number.
* A queue of one is full with one event; with three events one is being sent,
  one queued and one dropped. One retry has a first, a repeated and a last
  attempt.
* `MaxEdits` (2) lets a source change under a reload and once more after it.
* Exchange's nine bodies have the secret whole and its halves in two messages,
  two blocks and two parts, a block without text, system messages of both forms
  and a system field; its five objects a reply without a candidate, without a
  text, and with a second part that is not read.
* Streams have up to two lines of five kinds (silent, word, first half, second
  half with a finish, a finish alone) with every set of cuts, and three lines of
  three kinds, one finishing in the middle. A loop's state is one Boolean and
  texts it only appends to, so pairs of lines reach every one of its branches
  and three lines reopen a message. A connection that breaks is a shorter body,
  with a cut line last if it breaks inside one.
* Each inspector kind occurs once; two of a kind would add symmetric orders.

### Fairness

Weak fairness of a goroutine that can run is the Go scheduler's. Remote calls
end because every HTTP client has a timeout (240 s, 10 s) and backoffs are at
most 10 s. Beyond that:

* VertexClient: requests keep arriving (weak fairness of `Begin`): without
  traffic nothing probes. How calls end is not assumed; `Recovers` has the
  health of the service as its premise instead (`Healthy`: no more server
  errors, and of the calls made not only client errors).
* PolicyEngine: strong fairness of `Read` (a source that is asked for ever is
  read at last) and of `Return` (select chooses among its ready cases at random,
  and after Stop the ticker is stopped, so the ticks run out). Evaluations end.
* RateLimiter: time passes and the cleanup goroutine runs.
* Shutdown: no signal is required to come, no request to arrive, and the process
  may die; the worker and main keep running until then.

Exchange states no fairness: its properties are safety properties, and that
every request is answered is Gateway's.

Deadlock is not checked where the system really stops: after the process's
death or exit, for a stopped policy engine, and for Exchange's only request.

## What is proved

TLAPS checks these for every value of the constants, under the assumptions the
modules name: a positive threshold, limit, window and queue, as the code's
defaults and constructors have it; a finite set of inspectors; a marker `None`
that is no event, inspector or entry; and for Exchange that its bodies, objects
and streamed replies are of the types of Translate and Streaming, a body has
messages or contents but not both, and a body is cut inside and not at its ends.
Every invariant, action property and refinement of the passing runs has its
theorem. Each rests on an inductive invariant, `IInv` in the proof module.

**The breaker** (`VertexClientProofs`): `TypeCorrect`, `ThresholdHolds`,
`HalfOpenNeverRefuses`, `ImplementsCallGate`. `IInv` is the type invariant with
`ClosedBelowThreshold` and `HalfOpenAdmits`. They need each other: RecordSuccess
keeps `successes` in its type only because a half-open breaker still has room
for a success, and it closes with `failures` at 0, below the threshold because
that is positive. For the refinement a Begin is a `Pass`, an End a `Return`, a
refusal and a tick are stutters.

**The gateway** (`GatewayProofs`): `TypeCorrect`, `PromptsAreScreened`,
`RepliesAreScreened`, `LogAgrees`, for any set of concurrent requests. `Local(r)`
says what is known of one request at each of its positions: nothing logged
before a handler has decided, the format known from authentication on, the
prompt screened from the call on, the reply judged before a delivery is planned,
and the log that goes with each plan. A step of r changes only r's components,
so the lemma `Same` carries `Local(q)` of every other q over.

**The webhook and shutdown** (`ShutdownProofs`): `TypeCorrect`,
`EventsInOnePlace`, `DeliveryIsBounded`, `StopSettlesAllEarly`, for any events,
queue and number of retries. The invariants say nothing of the worker's position,
which decides whether they are kept: `WorkerKnown` adds that it holds an event
exactly while sending, and that only a closed `done` leads it to the drain loop;
`AttemptCounts` that the loop variable bounds the posts of the event in hand;
`EarlyUnderWay` that an event queued before Stop is on its way, and settled once
the worker has exited. The step that matters is the exit: it happens with the
queue empty, and with nothing in hand there is no other place an event queued
early can be.

**The chain** (`InspectorChainProofs`): `TypeCorrect`, `ChannelClosedLast`,
`ImplementsScreening`, for any finite set of inspectors. `Counted` says that the
WaitGroup's counter is the number of goroutines that are launched and not done;
that it is 0 when the closer passes Wait then gives that nobody is left to send.
`CallerKnown` relates the caller and the closer, `VerdictKnown` a verdict to its
goroutine's position, and `BlockKept` is what makes the answer right: a block
that was sent is still in the channel or one has been kept. For the refinement,
`Return` hears an inspector, `Finish` answers, a panic is `Crash`, and launching,
sending, closing and collecting are stutters.

**The limiter** (`RateLimiterProofs`): `TypeCorrect`, `WindowLetsLimitThrough`,
`BurstIsTwiceTheLimit`, `CleanupIsInvisible`. The properties count requests let
through, so the invariant counts too: `CountedWindow` equates the count of a
window, up to the limit, with the requests let through since it opened;
`BoundedBefore` says that those before it are at most the limit, `BoundedRest`
the same of a key without a window. A span holds the two kinds, hence twice the
limit. That a tick leaves the number of requests of a window as it is (they age
together) is a bijection (`LaterCounts`); that a request let through is a new one
of its tick is `NumberedNow`.

**The policy engine** (`PolicyEngineProofs`): `TypeCorrect`,
`EvaluationsAreStable`, `PolicyAdvances`. The policy a watcher is about to swap in
must be known to be good and not older than the newest of its source when it was
read; `HeldIsNew` keeps this from the read to the swap, while requests and the
other watcher run in between.

**A request with its texts** (`ExchangeProofs`, with `TextProofs`):
`TypeCorrect`, `SentWasScreened`, `LossesAreCuts`, `StreamsAreWellFormed`,
`DeliveredIsScreened`, `GatewayImplemented`, for all bodies, replies and cuts. The
parts of `IInv`:

* `PromptKnown`: from the call on the prompt breaks no rule, and it holds every
  turn sent (`TurnsHeld`) but the exceptions the property names.
* `ReplyKnown`, `OffsetKnown`: which kind of reply each position finds, given mode
  and request; an odd offset is a cut, and a delivered stream was read to its end.
* `WriterKnown`: the loop's state is what one pass over all lines read so far
  would have made of it, with the lines that were cut silenced.
* `ScreeningKnown`, `NothingEarly`, `LoggedKnown`: what was screened is the text
  of the reply written, and a handler that has not decided has left no trace.

`WriterKnown` is what TLC cannot check beyond a few lines. Its step (`ReadAdds`)
says that the lines of a read, appended to those before, are the lines up to its
end: a cut leaves one silent line and nothing else is lost. What the
loop makes of any number of lines is in `TextProofs`: the text shown and the text
accumulated are the text of the lines (`StreamTexts`), the events follow one
another and the message is open exactly if the last saying line had no finish
reason (`StreamInForm`), and a loop over a concatenation is the loop over the
second part after the first (`StreamConcat`). These go by induction over
sequences, written as the fact that a set with the empty sequence that is closed
under Append holds every sequence (`SeqInduction`), which Z3 and Zenon take as an
ordinary set; the loops and the library's FlattenSeq are recursive functions,
shown to exist before anything is said of them (`LoopExists`,
`FlatteningExists`).

For `GatewayImplemented` each action has its lemma (`ReceiveMaps`,
`ScreenReplyMaps`, ...). Refuse, Write and EndStream are Gateway's Write; Read and
PassOn are stutters. The screenings need that the class of a text decides what
the text decides (`ClassDecides`), and the audit that the accumulated text is the
one that reached the client (`AuditDecides`).

What the proofs have changed in the models:

* `ScreenedIsSent` was false for bodies the run did not have: the acknowledgement
  of a system text need not occur in the prompt. The lemma about
  TranslateToGemini (`TurnsSent`) failed there; `Acknowledged` now states the
  exception, and a ninth body exercises it.
* `Phase`, the refinement mapping of InspectorChain, had overlapping cases, so
  CASE left the choice open; it is now a nested IF.
* The limiter's history was a sum per tick, about which nothing can be proved
  without induction over the window; as a set of requests it can be counted.
* Streaming's folds became recursive functions, and Exchange's lines and replies
  got the types that ExchangeAssumption now states.

**Only model-checked**: liveness, because fairness and ENABLED are beyond the
prover: `OpenIsProbed`, `Recovers`, `Terminates`, `EveryRequestAnswered`,
`AuditReportsViolation`, `QueuedIsSettled`, `StopReturns`, `RefusedIsReadmitted`,
`ExpiredIsRemoved`, `EditAtRestTakesEffect`, `UrlEditTakesEffect` and
`StopEndsWatchers`.

## What is not modelled, and what the model assumes

* In Gateway a stream is one step and a text a class; Exchange has both in full.
  The screened text is `candidates[0].parts[0]` of a reply, and the messages of
  a request but not the Anthropic `system` field or `systemInstruction`. What is
  "screened" in the properties means this.
* Of translation: models, ids, token counts, the generation config; a body that
  has both `messages` and `contents` (only the first would be screened and, by a
  chat handler, sent). Of streaming: a line holds one object; numbers, ids and
  SSE syntax. A client that disconnects changes nothing for the translating
  loops, which ignore the errors of their writes.
* Exchange takes the middlewares as passed and the circuit as closed; both are
  Gateway's. The limiter's, the breaker's and the chain's inner steps are left
  to their modules.
* Why a body is refused: malformed, oversized (parseBody allows a byte more than
  its limit) and unreadable bodies are one `bad_request`.
* What policies and regular expressions answer; JWTs, tokens, headers, CORS.
* Failures that end the program as it starts: a policy that cannot be loaded, a
  port in use, a rate-limit window that is not positive.
* In PolicyEngine a later edit has a later modification time. With both sources
  the two goroutines share one ticker and `lastModTime` is read without the
  lock; the model lets every tick reach either goroutine, and a read sees the
  old or the new time. That a file edit can be swallowed or overridden by the
  URL's policy there is a behaviour of the model, so the properties of edits
  take one source alone.
* In Shutdown the endpoint's URL is well-formed and the inflow of events is
  bounded; an endless inflow could hold the drain loop up.

## Plan

1. Done: the breaker and its gate, the chain and its promise, the gateway, the
   webhook and shutdown, the limiter, the policy engine, the texts and streams of
   a request and their refinement of the gateway; the proofs above.
2. Done: theorems for every safety property, invariant, action property and
   refinement that a run checks.
3. Two policy sources at once: what the shared ticker and `lastModTime` do to
   "the file takes precedence".
4. The liveness properties as far as their safety core goes: that a step which
   a fairness condition names stays possible and a measure of what is left to do
   never grows, proved as action properties. Candidates are the drain of the
   webhook (`StopReturns`) and the closing of an open circuit (`Recovers`).
5. Several requests of Exchange at once, for the log and the queue they share.
