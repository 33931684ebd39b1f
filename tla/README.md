# Formal models of the Conviot middleware

TLA+ models of the middleware under `src/src/`, checked with TLC on small
instances, and theorems about them proved with TLAPS for every value of the
constants. Paths below are relative to `src/` in the sense of `PROJECT.json`
(`src/middleware/…` is the middleware, `src/common/…` its libraries).

## The system

`conviotMiddleware` connects devices and web services, which speak MQTT, with a
MySQL database that a web application fills with users, devices and *ECA rules*
(event, condition, action).

| Component | State | Operations | Talks to |
|---|---|---|---|
| Main program, `ConviotMiddleware.c` | configuration | read the file, create, execute and destroy the central manager | CentralManager |
| CentralManager | `g_bExit`, `hEvent`, three managers | signal handler, Create, Execute (run, wait, join), Destroy | all managers |
| ThingManager | device rows, alive array, variable histories | REGISTER, UNREGISTER, ALIVE, SEND_VARIABLE of devices and of services; a thread that disables silent devices | DBHandler, MQTT handler |
| AppManager | `is_satisfied` of conditions, application history | SEND_VARIABLE (compute conditions, request actions), FUNCTION_RESULT | DBHandler, MQTT handler |
| InfoManager | none | its callback logs | MQTT handler |
| DBHandler | the tables of the database, one connection per manager | one function per question or update, one or more SQL statements each | MySQL |
| MQTTMessageHandler | connection, subscriptions, delivery token, queue, thread | Connect, Subscribe, Publish, Disconnect, the library's callbacks, the handling thread | CAPQueue, Paho |
| CAPQueue, CAPThreadLock, CAPThreadEvent | list, lock, event, exit flag | Put, Get, SetExit, RemoveAll | CAPLinkedList |
| CAPLinkedList, CAPString, CAPHash, CAPStack, CAPKeyValue, CAPBase64, CAPLogger, … | data structures | the usual ones | – |
| `middleware/temp/`: script compiler (`AppScriptParser.c`) | a scenario's nodes and their links, pending nodes on two stacks | Load, MoveToNext, traversals | CAPStack, CAPLinkedList, CAPHash |
| `middleware/temp/`: application engine (`AppEngine.c`, `AppRunner.c`, `AppValueCache.c`) | scenarios, each with a thread, an event, two queues and a value cache | Verify, Add, Run, Stop, Delete; the scenario's thread; the MQTT callback | script compiler, CAPQueue, CAPThreadEvent, an MQTT handler |
| the rest of `middleware/temp/` | an earlier version of the managers, over sqlite | – | built by no Makefile |

The threads are: the main thread; per manager one MQTT library thread, which puts messages
into the manager's queue, and one handling thread, which takes them out and runs the
manager's callback to its end; and the alive thread of the ThingManager. A signal handler
may interrupt any of them. They share the queue, `g_bExit`, the handler's connection
fields and, through MySQL, the tables. A function of `DBHandler.c` that runs several
statements is not a transaction. In the legacy engine each scenario has a thread of its
own, which its MQTT callback and the engine's callers wake, feed and stop through flags,
an event and two queues without a common lock.

What is hard: the queue's lock and event are two mutexes with a gap between
them; a handler and the alive thread interleave between two statements on the
same device; a statement may fail half-way through an update, and nothing
repairs it; the reaction of a rule to a sequence of messages depends on what
the database remembers of earlier ones; shutdown has to wake every thread,
also after a start-up that failed half-way; the legacy scenario must follow its
text whatever arrives in between, and a Stop must find its thread wherever it
waits.
`PROJECT.json` lists each of these hazards at its line.

## Modules

| Module | Models | Role |
|---|---|---|
| `FifoQueue` | what `CAPQueue.h` promises | abstract specification |
| `CAPQueue` | `CAPQueue.c`, `CAPThreadLock.c`, `CAPThreadEvent.c` | implements `FifoQueue` |
| `CAPQueue_proofs` | – | five theorems about `CAPQueue` |
| `LinkedListOps`, `CAPLinkedList` | `CAPLinkedList.c` | implements `DataSequences` |
| `CAPLinkedList_proofs` | – | two theorems about `CAPLinkedList`, one of them that refinement |
| `DataSequences`, `Dictionary` | what the callers of lists, hashes and key-value lists rely on | abstract specifications |
| `HashOps`, `CAPKeyValue` | `CAPHash.c`, `CAPKeyValue.c` | implements `Dictionary` |
| `StringOps`, `CAPString` | `CAPString.c` | component |
| `CAPBase64`, `CAPLogger`, `CAPStack` | the files of these names; of `CAPFile.c` what the logger calls | components |
| `ArgumentPayload` | `replaceWithRealVariable` of `DBHandler.c` | pure algorithm |
| `VariableHistory` | `handleServiceMessage` of `ThingManager.c` with its part of `DBHandler.c` | component |
| `CAPLogger_proofs` | – | a theorem about `CAPLogger` |
| `CapCommon`, `MCCapCommon` | – | composition: the library's parts, `ArgumentPayload` and `VariableHistory` side by side; its instance |
| `CapCommon_proofs` | – | ten theorems about `CapCommon`, two of them refinements |
| `CentralManager` | `CentralManager.c` and Create, Run, Join and Destroy of the three managers | component |
| `CentralManager_proofs` | – | two theorems about `CentralManager` |
| `Schema`, `DBHandler` | the tables shared by the managers, the statements several of them run | library |
| `ThingManager`, `MCThingManager` | `ThingManager.c` with its part of `DBHandler.c` | component |
| `ThingManager_proofs` | – | five theorems about `ThingManager` |
| `EcaRules`, `EcaEngine` | the rules; what the AppManager promises | abstract specification |
| `AppManager`, `MCAppManager` | `AppManager.c` with its part of `DBHandler.c` | implements `EcaEngine` |
| `AppManager_proofs` | – | four theorems about `AppManager`, one of them that refinement |
| `MQTTMessageHandler`, `MCMQTTMessageHandler` | `MQTTMessageHandler.c`; the library's callbacks and the broker as the handler uses them | component, over `FifoQueue` |
| `MQTTMessageHandler_proofs` | – | four theorems about `MQTTMessageHandler` |
| `AppScript` | the semantic actions of `temp/AppScriptParser.c`, and the evaluation of conditions in `temp/AppRunner.c` | pure algorithms |
| `AppValueCache` | `temp/AppValueCache.c` | library |
| `AppRunner` | `temp/AppRunner.c` | component, over `AppScript` and `AppValueCache` |
| `AppEngine`, `MCLegacy` | `temp/AppEngine.c` | composition; implements `Scenario` |
| `Scenario` | what a running scenario promises | abstract specification |

`MC…` modules give the constants of an instance; the `.cfg` files name them.

### Correspondence with the code

* **CAPQueue.** One `pc` per caller. `Lock`/`Unlock` are `CAPThreadLock_Lock`
  and `_Unlock`; `PutAdd`, `SetExit`, `RemoveAll`, `GetFirst`, `GetMustWait` and
  `GetFails` are what happens inside the lock; `CallSetEvent` and `WaitEvent`
  are the event, whose mutex is taken and left within the step. A spurious
  wake-up of `pthread_cond_wait` is a step. `put` and `out` are history.
* **DBHandler, Schema.** A table is a function of its key; the rows the
  middleware never writes are constants. One SQL statement is one step,
  because MySQL runs it atomically; a function of `DBHandler.c` with several
  statements is several steps, with the other thread in between. Any statement
  may fail (`StatementFails`), which leaves the function as the code does.
* **ThingManager.** `pc["alive"]` walks through `aliveHandlingThread`, `pc["mqtt"]`
  through `handleDeviceMessage`, and both through what they call. The three
  statements of `disableDeviceAndEca` are `DisableStatements`, shared by both
  threads. `Now` runs in ticks, `SECOND` of them in a second; `updated_at`
  keeps whole seconds, as the column does. `heard`, `snapAt`, `asked` and
  `replies` are history.
* **AppManager.** What `handleUserApplicationWithDevice` and `…WithService` call,
  `computeConditionsThenActuateIfPossible`, the writing of the conditions and
  `actuateSatisfiedEcaList`, are the places `list`, `compute_…`, `insert`, `reset`
  and `actuate_…`. The lists the code builds
  are sets: the loops take their elements in an unspecified order, as SQL
  returns rows. `computeSingleCondition` evaluates the expression of a condition
  operator by operator; its numbers are exact where the code compares doubles up
  to `DOUBLE_EPSILON`. `disabling` is the thing manager's part: it disables devices,
  and registers them again, between any two statements.
* **MQTTMessageHandler.** `pc["main"]` is the manager's thread from Connect over
  SubscribeMany to Disconnect, `pc["callback"]` is `connectionLostCallback`,
  `pc["handling"]` is the handling thread with `fnCallback` and Publish. The
  queue is the abstract `FifoQueue`, which `CAPQueue` implements. The library
  loses what was in flight with the connection and the broker what was
  subscribed (`cleansession` is set); a connection can be lost while it is
  up, and any call of the library may fail. `TypeOK` is proved, and checked in
  no run.
* **ArgumentPayload.** `replaceWithRealVariable` is the loop over the argument, as a
  recursive function of the index it has reached. What stands between braces is one
  character, the reference; `segments` is the argument as its user means it.
* **VariableHistory.** `pc` walks through `handleServiceMessage`. The messages of
  services touch no row that the alive thread or a device's message reads, and are
  not answered, so they have a module of their own. The general service's loop is
  one step a row, in the unspecified order SQL returns rows. `due` is history.
* **Libraries.** `LinkedListOps`, `StringOps`, `HashOps` and `CAPStack` have one
  operator per function, from a value of the data structure and the arguments
  to its new value, the result and the data. `CAPLinkedList`, `CAPKeyValue` and
  `CAPString` are the behaviours of callers that make any call on existing
  handles. A linked-list pointer is the place of its node. The hash function is
  a parameter; the instance maps both keys to one bucket. The loops are recursive
  functions: FindString's of the place, those of the hash of the rounds done,
  `CAPKeyValue_ReadFromBuffer`'s of the lines still to come. `CAPBase64` picks
  freely what lies in memory behind its input, since the loops read it.
  `CAPString` counts how much of the buffer it finds a call reads or writes (`Access`,
  `Change`): outside it, `CAPString_SetLength` and `CAPString_Trim` end the process or go
  on with what lies there (`overran`, `crashed`). A value whose string was never set is
  `NoText`, which `CAPKeyValue_WriteToString` prints as glibc prints NULL (`Shown`).
* **CAPLogger.** A file is its lines and the size that `CAPFile_GetFileSize` is told;
  the files outlive the process. A rotation is `CloseLog`, one `RenameNext` for each round
  of the loop, `OpenLog` and `WriteLine`, with `writer` as its place; the lock is held
  from the first to the last. `Kill` ends the process between any two of them and
  `CallFails` returns from any of them with the lock held. `written` is history, and so
  is `miscounted`: whether a Create has found a backup missing below another.
* **CentralManager.** `main` is where `main()` is and which manager's turn it
  is; `handlers` gives for each thread the signal handlers that run on it, one inside
  the other (SIGINT and SIGTERM share `intHandler`, and each is blocked only on the
  thread that handles it); `event` is `hEvent` with the owner of its mutex, which
  `CAPThreadEvent_SetEvent`, `_WaitEvent` and `_Destroy` take and give up in steps of
  their own. The threads of the MQTT library take signals too; nothing waits for them,
  so a handler there does what one on a slow handling thread does, and they are left
  out. A handling thread of the thing or application manager may hang in
  `MQTTMessageHandler_Publish`. Messages and alive rounds are only the intervals in
  which a thread uses its database. Create, connect, subscribe, the timed query
  of the alive thread and disconnect may fail; what the code does after that is
  the model's.
* **AppScript.** The parse is given; the operators are the rules of the grammar
  that build: `Infix` for conditions, `changeInfixToPostfix` as a fold over its
  loop, `FirstStatement`, `NextStatement`, `Block`, `ScenarioBehavior` for the
  links, `LinkLabels` for ON FAIL, `Finished` for what leads to the end.
* **AppRunner.** `threads[t].pc` is where an `AppRunningThread` is; evaluating a
  statement and `MoveToNext` are one step, because nobody else writes the node.
  What a handler does after it published (`PutCondition`, `WaitForCondition`,
  `GetResult`) are steps of their own. `callback` is `mqttMessageHandlingCallback`
  with the condition it holds; `step` is the place in Run, Stop or Join. Publish
  is one step, confirmed. Whether a condition is true is looked up in a table
  that is computed with the operators of `AppScript` when the script is loaded.
* **AppEngine.** Add, Run, Stop and Delete of one scenario, under the engine's
  lock, and the verification of its statements against the database. Behind a
  Destroy with a thread that is still alive nothing is modelled: that thread
  reads freed memory. A Run that fails behind `MQTTMessageHandler_Connect`
  (`AppRunner.c:1211-1258`) leaves the handler connected and the callback freed
  (`callback.pc` is `freed`); Add then joins and destroys the runner. What a message would
  do with the freed callback meanwhile, and Destroy's second free of it, is undefined and
  not modelled.

## Runs

| Run | What is asked | Shown |
|---|---|---|
| `queue` | `FifoOrder`, `NoLostWakeup`; `DataArrives`, `ExitReleases`; `ImplementsFairFifo` | every interleaving of two putters, the getter, an exiter and a remover behaves as a FIFO queue with a close operation; no wake-up is lost in the gap between the two mutexes |
| `thing_safety` | `DisabledDeviceHasNoEca`, `UnregisterAnswerIsTrue`, `NeverTooEarly`, `AnsweredInOrder` | the two threads on the same tables, with a failing statement: they hold |
| `thing_alive` | `SilentIsDisabled` | a silent device is disabled, if the alive thread lives |
| `thing_stale_rows` | `DisabledForSilence` (violated) | an ALIVE handled after the rows were read does not save the device |
| `app_safety` | `ActuatedOncePerMeeting`, `RequestedWasUsable` | with a failing statement and a device that is disabled or registered at any moment: they hold |
| `app_engine` | `ImplementsEcaEngine` | statement by statement, the reaction to a variable implements the one-step `EcaEngine`, liveness included |
| `app_removed` | `RemovedIsNotActuated` (violated) | a failed statement leaves conditions behind that actuate a removed rule later |
| `mqtt` | `FunctionFindsConnection`, `PublishedIsConfirmed`, `RestorationCoversList`; `PublishReturns`, `MessagesAreHandled`, `ExitIsFollowed` | the three threads of a handler with connections lost at any moment: they hold, the liveness ones unless a delivery token is lost with its connection |
| `mqtt_restore` | `RestorationIsComplete` (violated) | a topic subscribed but not yet in the list is lost with the connection |
| `library` | `PointersOnNodes`, `ReadsBackWhatIsWritten`, `TextFitsBuffer`, `FindsTheNeedle`, `DecodesWhatWasEncoded`, `NewestLinesInOrder`; `ListImplementsSequences`, `HashImplementsDictionary`; `ReferencesBecomeValues`, `ValuesReachEveryThing` | any calls on lists, key-value lists whose keys collide, a text, a coding and a logger whose calls fail and whose process ends between any two steps: each is what its callers mean by it, but for the calls that `TextFitsBuffer`, `ReadsBackWhatIsWritten` and `NewestLinesInOrder` except (see the findings); the references in arguments become values and nothing else changes; a service's value is recorded once for each user it is meant for, and a failure loses each at most one |
| `central` | `DatabaseOpenWhileUsed`, `StopsClean`; `HeardSignalStops` | two signals on any threads, nested or side by side, and a failing call or a hanging publication anywhere from start-up to shutdown: databases are open while they are used, nothing outlives a run without failures, a signal that was heard ends the program unless a handler waits for the event's mutex that its own thread owns, or a publication hangs |
| `legacy` | `PostfixMeansInfix`, `LinkedAsWritten`, `VerifiedStatementsRun`; `StopEndsTheThread`, `RunsTheScenario` | a scenario with a wait, a branch, a periodic loop and a failing action implements its text under every interleaving of its thread, arriving values and results, and two calls; a Stop ends its thread, unless the thread's handle was lost before; scripts are linked, conditions evaluated and statements verified as written |

The `TypeOK` of `CAPQueue`, `ThingManager` and `AppManager` is checked with
their safety properties. `PROJECT.json` names for every property a mutant of
the code under which it fails.

### Findings

The three violated properties are disagreements between the code and what its
log says; `PROJECT.json` quotes each. Met besides them, while modelling:

Middleware:

* `Publish` waits, in a loop without a limit, for the confirmation of a token
  that is gone when the connection is lost meanwhile (the session is clean). The
  handling thread then hangs, and with it Disconnect and the program's exit.
  The liveness properties of the run `mqtt` name this way out, `TokenIsLost`.
* `DBHandler.c:1566`: a registration between `COUNT(*)` and the row query makes
  the alive thread's two queries disagree; the error ends that thread for good,
  and silent devices are no longer disabled. `SilentIsDisabled` is about a
  thread that lives.
* `DBHandler.c:1218` looks at the first digit of a count, so a rule with 10 to 19
  conditions is treated as one with a single condition and reacts at once.
* `DBHandler.c:982` puts `failed` into the statement without quotes, so the
  database never records that a device failed.
* `replaceWithRealVariable`: `{{` without `}}` behind it reads an index that is unset or
  left from an earlier reference, and `{{}}` hands a null pointer to `atoi`
  (`DBHandler.c:136-162`); `IsDelimited` leaves both out. `sleep(0.3)` (line 126) is
  `sleep(0)`, so an argument may be older than the message that triggered it; rows of the
  same second tie in `ORDER BY updated_at desc limit 1`, although the comment there says
  "Get latest value".
* A value that a service sends for a user goes to the first of the user's things of that
  service only, and a general service's loop ends at the first thing without a
  customer. `ValuesReachEveryThing` counts on one thing a user, and on customers.
* A condition with two bounds whose second operator is `>` or `>=` is never satisfied:
  `convertStringOperatorToEnum` (`AppManager.c:92-128`) knows these only as a first one.
* A rule with operator "any" requests its actions once for each condition that
  a message satisfies. Nothing in the repository says otherwise, so the
  abstract engine does the same.
* `CentralManager.c`: a signal before `hEvent` exists is lost; a handler that interrupts
  `main()` inside the event's mutex (`CAPThreadEvent_WaitEvent`, `_Destroy`), or the
  other signal's handler inside `CAPThreadEvent_SetEvent`, waits for that mutex for ever;
  a handling thread that hangs in `MQTTMessageHandler_Publish` (`MQTTMessageHandler.c:499`)
  keeps Disconnect, and so the program, from ending; after a Run
  that failed `main()` joins an alive thread that nobody asked to exit, until
  a signal comes. A message handling thread also ends, after the message in
  hand, when it sees `g_bExit`.
* `ThingManager.c:150-160` and `205-211` compute a file's path and its stored URL from two
  calls of `time(NULL)`.

Libraries:

* `CAPThreadEvent_WaitTimeEvent` does not look at `bIsSet`, although
  `CAPThreadEvent.h:27-28` says that an event set before is seen; and
  `CAPThreadEvent.c:124` lets `tv_nsec` reach 10^9 for periods that are no whole
  seconds.
* `CAPLogger.h` gives 2 MB as the default size, `CAPLogger.c:12` is `2*1024`;
  an error while writing (`CAPLogger.c:262-312`) leaves the lock held, so every
  later write waits for ever (modelled as `isLocked`).
* A process that ends in a rotation after backup 0 became backup 1, and before the log
  became backup 0 (`CAPLogger.c:279-308`), leaves backup 0 missing. The next
  `CAPLogger_Create` stops counting there (137-148), and a later rotation overwrites backup
  1 while the older backup 2 stays. From such a count on, `NewestLinesInOrder` demands
  that the kept lines are in order and within their limits, not that they are the newest.
* `CAPString_SetLength`, when it makes a text longer than its buffer, copies as many
  bytes as the new text has out of the shorter old buffer, or from NULL when the string was
  never set (`CAPString.c:511`); `CAPString_Trim` of a string never set writes through NULL
  (474). `TextFitsBuffer` names these two calls and says that no other one leaves its
  buffer. The repository calls SetLength only with 0.
* `CAPKeyValue_WriteToString` hands the NULL of a value never set to `%s`
  (`CAPKeyValue.c:336`). What is printed is then read back as the value;
  `ReadsBackWhatIsWritten` says so.
* `CAPStack_Duplicate` passes stack handles to `CAPLinkedList_Duplicate`.
* `CAPString_FindString` does not back up after a partial match, so it can miss an
  occurrence (`CAPString.h:330-344` says it answers NOT_FOUND when there is none);
  `FindsTheNeedle` says what is right about what it finds.
* `CAPKeyValue_ReadFromBuffer` of a text whose first line ends behind `=` writes through
  a null pointer (`CAPString.c:474`): the outcome `CRASH` of the model.
* The size that `CAPBase64_Decode` computes can be short by what lies behind the text
  (`CAPBase64.c:170`).

Legacy engine:

* A completed scenario cannot be run again: Stop's answer ALREADY_DONE fails Run
  (`AppRunner.c:1408-1410`). Two calls of Run before the first thread begins start two
  threads, and Stop knows one.
* A thread that had not begun when it was stopped runs on afterwards; Stop frees
  the condition list while the callback may evaluate it (`AppRunner.c:1516`).
* A failure behind `MQTTMessageHandler_Connect` frees the callback that the handler and the
  runner still point to (`AppRunner.c:1252-1258`, and again 1609-1613).
* A flag left set by a Stop lets the first WAIT of the next run pass at once.
* `a; if (c) { b; c }; d`: the second statement of a block also takes the nodes
  pending before the block (`AppScriptParser.c`, case 40). `LinkedAsWritten` demands the
  order of the text of scripts whose blocks hold one simple statement, and of every
  script that it does not run off its nodes.
* The negation of a comparison with an unknown value is false, as the comparison is;
  an action whose argument is not known yet ends the scenario (`AppRunner.c:995-1042`).
* `AppEngine.c`: a mismatch of BOOL and DOUBLE only adds to the text of errors (228);
  an integer passes for a string argument (383); a member variable is looked up by its
  virtual name (366); SEND and RECEIVE verify although the runner refuses them; an
  added scenario runs before its name is found to be taken.

### Bounds, and why they are enough

| Bound | Value | Why |
|---|---|---|
| threads of `CAPQueue` | 2 putters, 1 getter, 1 exiter, 1 remover | one thread serves each queue in the middleware; two putters race with each other |
| `Data` | 3 | two puts in the queue and one to come; a datum is put once |
| `Devices`, `Ecas` of the ThingManager | 2, 2 | one device with a condition and an action, in different rules, and another, unpaired or paired, that shares a rule with it |
| `MaxTime`, `SECOND`, `AliveCycle` | 4 or 5, 2, 1 and 2 | a tick is half a second, so `updated_at` really truncates; the clock passes cycle and allowance |
| `MaxMessages` | 2 (ThingManager), 2 or 3 (AppManager) | register and unregister again while the alive thread works; three messages meet, reset and meet an "all" rule again |
| `MaxErrors` | 1, 0 where the promise is only for runs without errors | one failure leaves every partial update there is |
| `MaxDisables` | 1 | one device goes while rules are evaluated |
| `Conditions`, `Ecas` of the AppManager | 5, 3 | an "all" rule with two conditions, one with a single condition, an "any" rule with two |
| values of conditions | temperatures 20, 30, 31 and three skies | below, at and above the bound of a comparison; a text that is found and one that is not |
| `MaxSegments` | 5 segments of a reference, a letter or a brace; values empty or two braces | adjacent references, single braces before and behind one, braces around other things, a value with braces |
| `VariableHistory` | 3 services, 7 things, 2 users, 3 messages of 11 kinds, 1 failure | a general service, a thing without a customer, two things of one user; every way a message is given up |
| `Topics`, `MaxTokens`, `MaxLost` | 2, 2, 2 | a loss before, during and after a restoration; a token after a lost one |
| lists of `CAPLinkedList` | 2 with 4 nodes together, 2 data | both ends, the middle and the cursor differ; attach and duplicate need two lists |
| key-value lists | 2 keys in one bucket, the value never set from callers, 3 given texts with values `x` and the empty one | collisions; a missing `LF`, blanks, an empty key; NULL, empty and other values side by side |
| texts | up to 3 of 2 letters and a blank, growth 2 | the buffer grows twice, and SetLength beyond it; overlapping partial matches |
| Base64 | all of up to 3 of 4 bytes, two longer ones | every padding, with and without a second group |
| logger | 0, 1 or 3 backups, lines of size 1 or 3 at limit 2, 6 lines, 1 failing call, any number of ends of the process | a line larger than the limit, more files than backups; two rotations behind a wrong count of backups |
| `MaxSignals`, `MaxFailures` | 2, 1 | a second signal anywhere in the first one's handler, on the same thread or on another; the first failure decides the way out, and a hanging publication is one |
| `MaxCalls`, `Threads` | 2, 2 | Run after Stop, Stop during Run's thread, and Delete; a second thread beside a lost one |
| numbers of the scenario | 0, 1/2, 1 for one value of type INT | conditions become true and false; a half does not fit the type |
| scripts | 1 to 3 statements of 8 kinds in one or two behaviours | blocks of one and two statements and a nested one; labels and failures |
| expressions | two comparisons, one of an unknown value, under up to two levels of AND, OR, NOT and parentheses | every pair of precedences, with and without parentheses |

All bounds are guards of the action that counts, so a run that has reached one
goes on with everything else. `CHECK_DEADLOCK FALSE` is in every configuration:
when the messages and the time of an instance are used up and the program has
been told to exit, nothing is left to do.

### Fairness

* The scheduler runs every thread: weak fairness of each thread's steps. It is
  not asked of callers to put, to send, to exit, or of statements to fail.
* `CAPQueue`: a getter comes back for the next message, as the loop in
  `MQTTMessageHandlingThread` does. `FairSpec` lets `SetExit` be called once,
  as `MQTTMessageHandler_Disconnect` does; a caller that did it for ever could
  hold the others off the lock.
* `ThingManager`: `Tick`, because time passes.
* `MQTTMessageHandler`: `Delivered`, because a broker that stays connected
  confirms what it received (QoS 2); strong fairness of `CallbackReturns`,
  because a callback publishes finitely often: `fnCallback` loops over finite
  lists. A reconnection may fail for ever.
* `EcaEngine` promises weak fairness of `React`, which `AppManager` implements
  under weak fairness of the handling thread.
* `CentralManager`: `main()`, the alive thread and a handler that has begun go on as
  far as the event's mutex lets them; a handling thread ends the message in hand unless
  its publication hangs, which may happen at any message and is not repaired. No signal
  need come and no message arrive.
* `AppEngine`: the threads and a call in progress go on, a message in hand is
  handled to its end, and things publish values, as sensors do. Which value comes, whether
  a request is ever answered and whether anybody calls is open. A WAIT whose condition
  never holds therefore may wait for ever, and `Scenario` promises no more.

## Proofs

The theorems hold for any number of threads, devices, rules, messages, topics, lists and
cycles, for texts and lists of any length and any clock resolution, under the named
assumptions:

* `RolesAssumption` (`CAPQueue`): the callers' roles are disjoint sets, `NoOne`
  and `NoData` are not among threads and data.
* `TablesAssumption` (`Schema`): devices are finitely many, the paired ones are
  devices, the two relations between devices and rules are functions.
* `CentralManager_proofs` needs no assumption: it holds for any bounds on signals and
  failures.
* `CapCommonAssumption` (`CapCommon`) assumes together what its parts name:
  `HistoryAssumption` (a customer for each thing or `NoCustomer`, users that differ from
  both), `StringAssumption` (texts grow by at least one character), `LoggerAssumption` (the
  numbers of backups, the sizes of lines and their limit are natural numbers),
  `CodingAssumption` (the inputs and what lies behind them are bytes),
  `ArgumentAssumption` (the values of variables are texts, the two braces are different
  letters and no references) and `KeyValueAssumption` (keys and given texts are texts,
  values are texts or `NoText`, what `NoText` is shown as is not empty, and there is at least
  one bucket). TLC evaluates it on `MCCapCommon`.
* `BucketsAreFound` (`CapCommon_proofs`), a hypothesis of `HashesAreDictionaries` and
  `ListsAreReadBack`: every key falls into one of the buckets, because `CAPHash.c:71` masks
  the hash value with `unBucketNum-1U`.
* `LinesSayThem` (`CapCommon_proofs`), a hypothesis of `ListsAreReadBack`: the keys and
  values that callers add, or the text that NULL is shown as, have no line feed and no blank
  at an end, the keys no `=`. The format has no escapes, so a value with a line feed does not come back as one; the keys
  and values of `MCCapCommon` are such. Of the texts that are read nothing is assumed.
* `CAPLinkedList_proofs` needs no assumption: any handles, any data. `LoggerAssumption` is
  the hypothesis of the theorem of `CAPLogger_proofs`.
* `Promised` (`AppManager_proofs`), the hypothesis of `EngineIsImplemented`: no statement
  fails (`MaxErrors` is 0, as in the run `app_engine`; the run `app_removed` shows that it is
  needed), every rule has a condition, and no rule has so many that their number only begins
  with 1, as 10 does: the code compares one character of it.
* The assumptions of `AppManager` and `MQTTMessageHandler` on their constants, each named
  in its module; `RulesAssumption` (`EcaRules`): conditions are finitely many rows with a
  rule, a thing, a variable and an expression, and every message brings a value.
* `ThingManagerAssumption`: cycles are natural numbers, a second has at least
  one tick, messages have the form `handleDeviceMessage` can receive.

| Theorem | States | Inductive argument |
|---|---|---|
| `CAPQueue_proofs!TypeCorrect` | `TypeOK` | with `PutArgument`: a Put in progress has a datum |
| `MutexHolds` | `MutualExclusion` | inductive with the types: being in a critical section and owning the lock change together |
| `FifoHolds` | `FifoOrder` | inductive with the types |
| `NoWakeupIsLost` | `NoLostWakeup`, if there is one getter | whoever makes a getter's reason to return true is on its way to set the event; with two getters the event of one can be used up by the other |
| `FifoRefined` | `ImplementsFifo` | step by step: `PutAdd`, `GetFirst`, `SetExit` and `RemoveAll` are the four abstract operations, all others stutter |
| `ThingManager_proofs!TypeCorrect` | `TypeOK` | six parts (`TypeInv`), one lemma per thread's `Goto` |
| `UnregisterIsTrue` | `UnregisterAnswerIsTrue` | `MqttDisables`: who is past the first statement of an UNREGISTER has the device disconnected; `ConditionsGone`: past the second, its condition rules are gone; the alive thread only ever disables (`AliveSideLeaves`) |
| `DisabledHasNoEca` | `DisabledDeviceHasNoEca` | on top of the former: only a registration connects a device, and a failed statement ends the claim |
| `NeverDisabledTooEarly` | `NeverTooEarly` | `SnapshotInv` ties the rows read to `heard`, `WholeSecondsBounds` bounds what the truncation loses by a second |
| `EveryRequestIsAnswered` | `AnsweredInOrder` | `AnswerPlaces`: where a handler with an answer to give can be; `InOrder` for the sequences |
| `AppManager_proofs!TypeCorrect` | `TypeOK` | five parts (`TypeInv`): the lists a message builds exist only while it is handled |
| `ActuationsWereMet` | `ActuatedOncePerMeeting` | `MetInv`: a rule still to be actuated was met once more often than it was actuated |
| `RequestsWereUsable` | `RequestedWasUsable` | what was heard was of usable rules, so what was computed, met and put to actuation is; holds of runs in which no statement has failed yet |
| `EngineIsImplemented` | the safety half of `ImplementsEcaEngine`, if `Promised` | `EngineInv` says at each place of the handler what it has computed, recorded, listed and requested so far of what the engine does at once; a rule's requests are counted by the cardinality of the conditions found satisfied, less the actions still to be requested (`Pending`). The list is the step `Hear`, the end of the handler `React` (`EndIsReaction`), a statement that removes rules `Remove`, everything else stutters |
| `MQTTMessageHandler_proofs!TypeCorrect` | `TypeOK` | four parts (`TypeInv`), one per actor |
| `FunctionIsConnected` | `FunctionFindsConnection` | `ConnectionInv`: the handling thread runs from the end of Connect until Disconnect has joined it |
| `PublicationsConfirmed` | `PublishedIsConfirmed` | inductive with the types: a token is given only to a thread that then waits for it |
| `RestorationCovers` | `RestorationCoversList`, of every step | `RestorationInv`: at index i of the loop the broker has the first i topics, or the connection is lost again |
| `CentralManager_proofs!DatabaseStaysOpen` | `DatabaseOpenWhileUsed` | a database is closed only at the place behind the joins of its threads, and a failed Join leaves it open: who is still running has its database |
| `ProgramStopsClean` | `StopsClean` | `CleanInv`: as long as nothing failed, the managers are created in one order and those before the turn of the joining loop have stopped |
| `CAPLinkedList_proofs!PointersDesignateNodes` | `PointersOnNodes` | `Sound`: also the cursor of a list with nodes is set; a walk from a cursor of -1 would end at no node (`MoveToPlace`) |
| `ListsAreSequences` | `ImplementsSequences` | a lemma for each function says what it answers and makes of a sound list (`AddAnswers`, `RemoveAnswers`, …), another that its step is one of `DataSequences` |
| `CAPLogger_proofs!LogKeepsTheNewest` | `NewestLinesInOrder` | `IInv` = types, `LogIsThere`, `Good` (the kept lines are in order within their limits, at every place of a rotation), and, unless `miscounted`, `Full` (the newest lines are kept, and at most one place is free when some were given up) and `Counted` (`nBackupNum` says which backups exist, and in a rotation `Gap` says which place is free). One lemma per action; `RoundMovesTheGap` is about a round of the loop, `CountFindsAll` about a start that is not miscounted |
| `CapCommon_proofs!CursorsOnNodes` | `PointersOnNodes` | `CAPLinkedList_proofs!PointersDesignateNodes`, since lists take their own steps in the composition (`ListRuns`) |
| `ListsAreSequences` | `ListImplementsSequences` | in the same way |
| `LogsKeepTheNewest` | `NewestLinesInOrder` | `CAPLogger_proofs!LogKeepsTheNewest`, by `LoggerRuns` |
| `TextsFit` | `TextFitsBuffer` | inductive for each function of `StringOps` alone (a lemma each): what an append grows the buffer to is beyond the text, what Trim leaves is part of it. What a function reads of its old buffer is at most its text and the terminator (`AccessSound`), but for SetLength and Trim |
| `NeedlesAreFound` | `FindsTheNeedle` | induction over the places of the text: the walk is a partial match behind the place it began, and nothing that begins with a first match is passed by |
| `ValuesReachTheirThings` | `ValuesReachEveryThing` | `HandlerInv`, with the types: past the first step the key is right, and the rows still to be served are meant; so each step records, keeps or, failing, loses what was pending |
| `CodingsAreUndone` | `DecodesWhatWasEncoded` | group by group: four signs give back the three bytes they were made of, by the arithmetic of 6 and 8 bits; what the last group lacks is what was padded |
| `ReferencesAreReplaced` | `ReferencesBecomeValues` | every sign of an argument came from one segment, so the braces the loop meets are those of a reference, and no reference stands behind a letter's braces. Induction over the segments, from the last one |
| `HashesAreDictionaries` | `HashImplementsDictionary`, if `BucketsAreFound` | `HashInv`: each node is in the bucket of its key, and no key has two. `HashIs` says which nodes a hash has, and a lemma for each function of `HashOps` what it does to them; the lists of the buckets are those of `CAPLinkedList_proofs`, with nodes as data. The loops over buckets, nodes and lines end and keep the invariant (`IterationExists`, `IterationStays`) |
| `ListsAreReadBack` | `ReadsBackWhatIsWritten`, if `BucketsAreFound` and `LinesSayThem` | `ListsAreClean`: every node has a key and a value that a line can say, once NULL is shown as its text (`Said`). What is added has them by hypothesis, what is read by the way it is read (`LineIsClean`). Line by line, by `LineSays`, the walk over a text that was written meets the node the line was written for (`RoundGoes`), until there is no line left (`RoundStops`) |

TLC checks the same properties, except `MutualExclusion` and the `TypeOK` of
`MQTTMessageHandler`, in the runs `queue`, `thing_safety`, `app_safety`, `mqtt`, `central`
and `library`. The run `library` and the theorems of `CapCommon_proofs` name the same
definitions of `CapCommon`.

Where the code looks for the first or the last place that has a property, the model says
CHOOSE of a least or greatest number, and the proofs need that it exists. The lemma `Least`
takes it from the well-foundedness of the natural numbers and needs no induction over an
operator. The lemma `Induction`, for a property given as the set of the numbers that have
it, comes from the same source. With it what a recursive function computes is proved for
every input, once it is shown that a function as its recursive equation describes it exists.

Only model-checked:

* all liveness and fairness, the liveness half of `ImplementsFairFifo` and
  `ImplementsEcaEngine` included: fairness and ENABLED are out of the prover's reach;
* the legacy engine: `AppScript` uses RECURSIVE operators for the trees of scripts and
  expressions, so nothing is proved about it and the modules over it (`AppRunner`,
  `AppEngine`, `MCLegacy`).

## Not modelled

* The contents of histories: rows are counted where a property needs them.
  `things_variablehistory` is `recorded`, by device.
* The path and the contents of the file a binary value is stored in, and for a device
  the file itself: the model's value is stored whatever it is.
* That a rule becomes usable again: only the web application does that; each
  run starts with any set of usable rules.
* Rules with no condition: no instance has one. `DBHandler_RetrieveSatisfiedEcaList`
  finds such a rule satisfied at every message, usable or not, which is why
  `RequestedWasUsable` says that every rule has a condition.
* `CAPQueue_Destroy`, `MQTTMessageHandler_Destroy`, memory and the copying of
  payloads; the strings of deleted topics.
* MySQL's connection, which the two threads of the ThingManager share without a
  lock: seen through a statement that fails.
* InfoManager's callback, which logs and does nothing. Its life is in `CentralManager`.
* The list operation Split, which the code does not implement; Destroy of lists,
  hashes and texts, and memory as such; the conversions of texts to numbers, which
  are `strtol` and `strtod`; the layout of a log line.
* `middleware/temp/`: the tables of bison and flex; an IF without a block, whose
  action pushes a number as if it were a node (case 45); teams, SEND and RECEIVE;
  variables of type string; several scenarios at once, which share only the engine's
  lock and table; the texts of errors; the earlier managers over sqlite. No
  Makefile builds this directory, and `EOperator` is defined twice in it.
* The unlimited growth of the queue while a handler waits, and the single attempt to
  reconnect: there is nothing in the code that a property could hold it to.
* Files, sockets, processes, configuration and JSON parsing: I/O and wrappers.

## Plan

The safety properties of the middleware and its libraries all have their theorem. What would
come next:

1. `Middleware`: ThingManager and AppManager over the same tables, in place of the `disabling`
   of `AppManager`; service messages make the state space of `thing_safety` several times
   larger, so it needs smaller tables.
2. `divideTopicNameToList` against a reference definition.
