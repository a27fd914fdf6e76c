------------------------------ MODULE Dashboard -----------------------------
(***************************************************************************)
(* The page of src/public/app.js with the server behind it.  A handler     *)
(* runs until it awaits an answer; until that comes the user and the       *)
(* timer of the playback act, other calls are made, and the server takes   *)
(* the calls, which use several connections, in any order.                 *)
(***************************************************************************)
EXTENDS Simulation

CONSTANTS
  MaxCalls,       (* Bound: the calls that a user makes.                   *)
  UserRequests,   (* Bound: what executeOp sends.                          *)
  BootCapacities, (* Bound: what is typed on the boot screen.              *)
  SimOps,         (* Bound: the lengths of simulations.                    *)
  NoAnswer

(* executeOp asks for a key, and for the value of a put; simulations of    *)
(* less than no operations have none.                                      *)
ASSUME DashboardAssumption ==
  LET Filled == Strings \ {Empty}
  IN  /\ MaxCalls \in Nat
      /\ UserRequests \subseteq [api : {"put"}, key : Filled, value : Filled] \cup
                               [api : {"get", "remove"}, key : Filled]
      /\ BootCapacities \subseteq Int /\ SimOps \subseteq Nat
      /\ NoAnswer \notin AnswerType

VARIABLES
  server,
  calls,          (* Those under way.  A call is moved to the end when the *)
                  (* server has handled it, so that the answers stand in   *)
                  (* the order in which they were given.                   *)
  issued,         (* How many the user has made.                           *)
  overlay,        (* The boot screen covers the page.                      *)
  inSimulation, simHistory, simIndex,
  playing,        (* autoPlayInterval is set.                              *)
  screen,         (* What was rendered last.                               *)
  told            (* The last HIT or MISS that was logged, and the truth.  *)

playback == <<inSimulation, simHistory, simIndex, playing>>
page == <<overlay, playback, screen, told>>
vars == <<server, calls, issued, page>>

Init ==
  /\ server = NewServer(DefaultCapacity)
  /\ calls = <<>> /\ issued = 0
  /\ overlay = TRUE
  /\ inSimulation = FALSE /\ simHistory = <<>> /\ simIndex = 0 /\ playing = FALSE
  /\ screen = [capacity |-> 0, hits |-> 0, nodes |-> <<>>]
  /\ told = [claim |-> "none", truth |-> "none"]

-----------------------------------------------------------------------------
(* Calls.  task says whose continuation takes the answer.                  *)

Fetch(task, request, locals) ==
  [task |-> task, request |-> request, answer |-> NoAnswer, locals |-> locals]

reqApi(task, request) == Fetch(task, request, [prevHits |-> screen.hits])

UserCalls(call) ==
  /\ issued < MaxCalls
  /\ issued' = issued + 1 /\ calls' = Append(calls, call)

Handle(i) ==
  /\ calls[i].answer = NoAnswer
  /\ \E result \in Handled(server, calls[i].request) :
       /\ server' = result[1]
       /\ calls' = IF calls[i].task = "stray" THEN RemoveAt(calls, i)
                   ELSE Append(RemoveAt(calls, i), [calls[i] EXCEPT !.answer = result[2]])
  /\ UNCHANGED <<issued, page>>

(* The connection breaks before or after the server has handled the call.  *)
Fail(i) ==
  /\ calls' = RemoveAt(calls, i)
  /\ UNCHANGED <<server, issued, page>>

(* The page takes the call for failed, but it is still on its way to the   *)
(* server, which may handle it at any later time.  A call that would only  *)
(* have read the state is left out: it is as good as lost.                 *)
Strays(i) ==
  /\ calls[i].answer = NoAnswer /\ calls[i].task # "stray" /\ calls[i].request.api # "state"
  /\ calls' = [calls EXCEPT ![i] = Fetch("stray", calls[i].request, [none |-> 0])]
  /\ UNCHANGED <<server, issued, page>>

Arrives(i, tasks) == calls[i].task \in tasks /\ calls[i].answer # NoAnswer

-----------------------------------------------------------------------------
(* Operations.  The Enter key calls executeOp even while a simulation is   *)
(* played back and its button is hidden.                                   *)

executeOp ==
  /\ ~ overlay
  /\ \/ \E request \in UserRequests : UserCalls(reqApi("executeOp", request))
     \/ \E n \in SimOps : UserCalls(Fetch("captures", [api |-> "state"], [ops |-> n]))
  /\ UNCHANGED <<server, page>>

Returns_ClearNotShown(i) ==
  /\ Arrives(i, {"executeOp", "bootSystem", "clears"})
  /\ LET call == calls[i]
         data == call.answer.states[1]
     IN  /\ told' = IF call.request.api = "get"
                    THEN [claim |-> HitOrMiss(data.hits, call.locals.prevHits),
                          truth |-> call.answer.effects[1]]
                    ELSE told
         /\ screen' = IF call.task = "clears" THEN screen ELSE data
  /\ calls' = RemoveAt(calls, i)
  /\ UNCHANGED <<server, issued, overlay, playback>>

(* reqApi after its await.                                                 *)
Returns(i) ==
  /\ Arrives(i, {"executeOp", "bootSystem", "clears"})
  /\ LET call == calls[i]
         data == call.answer.states[1]
     IN  /\ told' = IF call.request.api = "get"
                    THEN [claim |-> HitOrMiss(data.hits, call.locals.prevHits),
                          truth |-> call.answer.effects[1]]
                    ELSE told
         /\ screen' = data
  /\ calls' = RemoveAt(calls, i)
  /\ UNCHANGED <<server, issued, overlay, playback>>

-----------------------------------------------------------------------------
(* Simulations.                                                            *)

Captured_NotPushed(i) ==
  /\ Arrives(i, {"captures"})
  /\ LET state == calls[i].answer.states[1]
     IN  /\ simHistory' = <<>>
         /\ \E g \in Generated(state, calls[i].locals.ops) :
              calls' = Append(RemoveAt(calls, i),
                              Fetch("simulates", [api |-> "batch", ops |-> g.ops],
                                    [state |-> state, shadow |-> g.shadow]))
  /\ UNCHANGED <<server, issued, overlay, inSimulation, simIndex, playing, screen, told>>

(* runSimulation after its first await.                                    *)
Captured(i) ==
  /\ Arrives(i, {"captures"})
  /\ LET state == calls[i].answer.states[1]
     IN  /\ simHistory' = <<[state |-> state, claim |-> "captured", truth |-> "captured"]>>
         /\ \E g \in Generated(state, calls[i].locals.ops) :
              calls' = Append(RemoveAt(calls, i),
                              Fetch("simulates", [api |-> "batch", ops |-> g.ops],
                                    [state |-> state, shadow |-> g.shadow]))
  /\ UNCHANGED <<server, issued, overlay, inSimulation, simIndex, playing, screen, told>>

Judged_FromStart(call) ==
  [k \in DOMAIN call.request.ops |->
     [state |-> call.answer.states[k],
      claim |-> Claim(call.request.ops[k], call.locals.state, call.answer.states[k],
                      call.locals.state.capacity),
      truth |-> call.answer.effects[k]]]

Judged(call) ==
  LET states == <<call.locals.state>> \o call.answer.states
  IN  [k \in DOMAIN call.request.ops |->
         [state |-> states[k + 1],
          claim |-> Claim(call.request.ops[k], states[k], states[k + 1], call.locals.state.capacity),
          truth |-> call.answer.effects[k]]]

(* runSimulation after its second await; simHistory may be another's now.  *)
Simulated(i) ==
  /\ Arrives(i, {"simulates"})
  /\ simHistory' = simHistory \o Judged(calls[i])
  /\ inSimulation' = TRUE /\ simIndex' = 0
  /\ screen' = simHistory'[1].state
  /\ calls' = RemoveAt(calls, i)
  /\ UNCHANGED <<server, issued, overlay, playing, told>>

AtPlayback == inSimulation /\ ~ overlay

toggleAutoPlay ==
  /\ AtPlayback
  /\ playing' = ~ playing
  /\ UNCHANGED <<server, calls, issued, overlay, inSimulation, simHistory, simIndex, screen, told>>

(* The two comparisons of stepSim.                                         *)
Clamped(index, len) == IF index < 0 THEN 0 ELSE IF index >= len THEN len - 1 ELSE index

stepSim(dir) ==
  /\ simIndex' = Clamped(simIndex + dir, Len(simHistory))
  /\ screen' = simHistory[simIndex' + 1].state
  /\ UNCHANGED <<server, calls, issued, overlay, inSimulation, simHistory, playing, told>>

AtEnd_PastLast == simIndex >= Len(simHistory)
AtEnd == simIndex >= Len(simHistory) - 1

(* The timer goes off, whatever the page shows.                            *)
Tick ==
  /\ playing
  /\ \/ /\ AtEnd
        /\ playing' = FALSE
        /\ UNCHANGED <<server, calls, issued, overlay, inSimulation, simHistory, simIndex, screen, told>>
     \/ ~ AtEnd /\ stepSim(1)

exitSim ==
  /\ AtPlayback
  /\ playing' = FALSE /\ inSimulation' = FALSE
  /\ UserCalls(Fetch("exits", [api |-> "state"], [none |-> 0]))
  /\ UNCHANGED <<server, overlay, simHistory, simIndex, screen, told>>

Exited_CapacityOnScreen(i) ==
  /\ Arrives(i, {"exits"})
  /\ calls' = Append(RemoveAt(calls, i), reqApi("clears", [api |-> "reset", capacity |-> screen.capacity]))
  /\ UNCHANGED <<server, issued, page>>

(* exitSim after its await.                                                *)
Exited(i) ==
  /\ Arrives(i, {"exits"})
  /\ LET cap == calls[i].answer.states[1].capacity
     IN  calls' = Append(RemoveAt(calls, i), reqApi("clears", [api |-> "reset", capacity |-> cap]))
  /\ UNCHANGED <<server, issued, page>>

-----------------------------------------------------------------------------
(* The boot screen.                                                        *)

bootSystem ==
  /\ overlay /\ overlay' = FALSE
  /\ \E cap \in BootCapacities : UserCalls(reqApi("bootSystem", [api |-> "reset", capacity |-> cap]))
  /\ UNCHANGED <<server, playback, screen, told>>

showBootScreen ==
  /\ ~ overlay /\ overlay' = TRUE
  /\ inSimulation' = FALSE
  /\ UNCHANGED <<server, calls, issued, simHistory, simIndex, playing, screen, told>>

-----------------------------------------------------------------------------
Step == AtPlayback /\ (stepSim(1) \/ stepSim(-1))

User == executeOp \/ toggleAutoPlay \/ Step \/ exitSim \/ bootSystem \/ showBootScreen

Handles == \E i \in DOMAIN calls : Handle(i)
Fails   == \E i \in DOMAIN calls : Fail(i)
Late    == \E i \in DOMAIN calls : Strays(i)

Continues(i) == Returns(i) \/ Captured(i) \/ Simulated(i) \/ Exited(i)

Answers == \E i \in DOMAIN calls : Continues(i)

Next == User \/ Handles \/ Fails \/ Late \/ Answers \/ Tick

(* The timer is a setInterval, which goes off again and again.             *)
Spec == Init /\ [][Next]_vars /\ WF_vars(Tick)

(* A user who waits until no call is under way, uses the buttons that are  *)
(* shown and stops the playback before a reboot, over connections that do  *)
(* not break.                                                              *)
PatientUser ==
  /\ calls = <<>>
  /\ \/ ~ inSimulation /\ executeOp
     \/ toggleAutoPlay \/ Step \/ exitSim \/ bootSystem
     \/ ~ playing /\ showBootScreen

PatientNext == PatientUser \/ Handles \/ Answers \/ Tick

PatientSpec == Init /\ [][PatientNext]_vars

-----------------------------------------------------------------------------
(* Properties of any use of the page.                                      *)

(* The playback never shows a step that is not there: however simulations, *)
(* exits and reboots overlap, simHistory has a state for simIndex when     *)
(* stepSim, the timer or applySimState looks one up (app.js:400-428).      *)
TypeOK ==
  /\ {overlay, inSimulation, playing} \subseteq BOOLEAN
  /\ simIndex \in Nat
  /\ issued \in 0 .. MaxCalls /\ Len(calls) <= issued
  /\ \A i \in DOMAIN calls :
       calls[i].task \in {"executeOp", "bootSystem", "captures", "simulates", "exits", "clears", "stray"}
  /\ inSimulation \/ playing => simHistory # <<>>
  /\ \A i \in DOMAIN calls : calls[i].task = "simulates" => simHistory # <<>>

(* A playback that is not taken back to the start or stepped back for ever *)
(* comes to its end and stops the timer, even when the history is replaced *)
(* under it or it goes on below the boot screen (app.js:400-410).          *)
AutoPlayEnds == <>[][simIndex' >= simIndex]_vars => []<>(~ playing)

(* A comment in showBootScreen says that the page is reset to normal mode  *)
(* underneath the boot screen (app.js:451-467).  It does not stop the      *)
(* timer of the playback, nor a simulation whose answer is still awaited.  *)
NormalModeUnderneath == overlay => ~ inSimulation /\ ~ playing

-----------------------------------------------------------------------------
(* Properties of a patient user.                                           *)

(* Two of the properties need a number to be typed in one way only: the    *)
(* registry shows "7" as "07" once somebody has typed that.                *)
OneSpelling == \A s, t \in Strings : Number[s] = Number[t] => s = t

(* Two of them need counters that do not wrap, of which the code has 2^64: *)
(* a call counts at most as many hits as the longest simulation.           *)
Longest(n) == n \in SimOps \cup {1} /\ \A m \in SimOps \cup {1} : m <= n

CountersSuffice == \E n \in SimOps \cup {1} : Longest(n) /\ MaxCalls * n < CounterMod

(* Every step of a playback is described by what the server did in it      *)
(* (app.js:345-381).                                                       *)
PlaybackTruth == \A k \in DOMAIN simHistory : simHistory[k].claim = simHistory[k].truth

(* The shadow by which a simulation chooses its hits and misses ends as    *)
(* the order of the real list (app.js:228-325).                            *)
ShadowFollows ==
  \A i \in DOMAIN calls :
    Arrives(i, {"simulates"}) =>
      calls[i].locals.shadow = Synced((<<calls[i].locals.state>> \o calls[i].answer.states)
                                        [Len(calls[i].request.ops) + 1])

(* HIT and MISS, told from the hits on the screen, are what the server did *)
(* with the key, also right after a boot, a simulation and an exit, which  *)
(* put another cache's hits on the screen (app.js:126, 131-137).           *)
HitMissTruth == told.claim = told.truth
=============================================================================
