--------------------------- MODULE DashboardUsers ---------------------------
(***************************************************************************)
(* The page with a user whose calls overlap, and who is one of three: any, *)
(* of whom nothing is asked, and two of whom a little is, so that the page *)
(* keeps what it does not keep for any.                                    *)
(***************************************************************************)
EXTENDS Dashboard

VARIABLE user

uses == <<vars, user>>

(* A user who runs operations and simulations at any time, but does not    *)
(* boot while an exit is under way, or exit while a boot is, and only      *)
(* looks at where a playback begins.  A call that fails is lost.           *)
UnderWay(tasks) == \E i \in DOMAIN calls : calls[i].task \in tasks

BusyUser ==
  \/ executeOp \/ showBootScreen
  \/ exitSim /\ ~ UnderWay({"bootSystem"})
  \/ bootSystem /\ ~ UnderWay({"exits", "clears"})

BusyNext == BusyUser \/ Handles \/ Fails \/ Answers

(* A user who does anything at any time, but stops the playback before a   *)
(* reboot, over connections that do not break and deliver the answers in   *)
(* the order in which the server, which serves one after the other, gives  *)
(* them.                                                                   *)
InOrder(i) == \A j \in 1 .. i - 1 : calls[j].answer = NoAnswer

OrderlyUser ==
  \/ executeOp \/ toggleAutoPlay \/ Step \/ exitSim \/ bootSystem
  \/ ~ playing /\ showBootScreen

OrderlyAnswers == \E i \in DOMAIN calls : InOrder(i) /\ Continues(i)

OrderlyNext == OrderlyUser \/ Handles \/ OrderlyAnswers \/ Tick

-----------------------------------------------------------------------------
UsersInit == Init /\ user \in {"any", "busy", "orderly"}

UsersNext ==
  /\ \/ user = "any" /\ Next
     \/ user = "busy" /\ BusyNext
     \/ user = "orderly" /\ OrderlyNext
  /\ UNCHANGED user

UsersSpec == UsersInit /\ [][UsersNext]_uses /\ WF_vars(Tick)

-----------------------------------------------------------------------------
(* Properties.                                                             *)

(* For a busy user only the boot screen changes the capacity; exiting a    *)
(* simulation, which makes a new cache, does not, whatever happens between *)
(* its two calls (app.js:431-442).                                         *)
ExitKeepsCapacity ==
  [][user = "busy" /\ server'.cache.capacity # server.cache.capacity =>
       \E i \in DOMAIN calls : calls[i].task = "bootSystem" /\ calls[i].answer = NoAnswer]_uses

(* An orderly user sees the server's cache outside of a playback whenever  *)
(* no call is under way, however operations, simulations, exits and boots  *)
(* have overlapped (app.js:137, 372-390, 431-467).                         *)
ScreenIsServer ==
  user = "orderly" /\ calls = <<>> /\ ~ inSimulation /\ ~ overlay => screen = json_state(server)
=============================================================================
