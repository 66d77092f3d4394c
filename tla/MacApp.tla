------------------------------- MODULE MacApp -------------------------------
(***************************************************************************)
(* The macOS app: the window and its SwitchController, the docker client   *)
(* it runs as a QProcess, the container with the entry point, the relay    *)
(* and the switch, and the shell scripts that end and start the helper of  *)
(* Tunnel.  Adding a peer restarts the container with one more peer.       *)
(*                                                                         *)
(* The docker daemon works and no process crashes, but a script, a client  *)
(* and a docker stop take as long as they like.                            *)
(***************************************************************************)
EXTENDS Tunnel, FiniteSets

CONSTANT MaxPeers  \* how many peers the user adds at most

\* One launch script is run for every peer that is added.
ASSUME MacAppAssumption == MaxPeers \in Nat /\ Helper = 1 .. MaxPeers

VARIABLES
  gui,        \* "idle": in the event loop; "adding", "closing": in
              \* waitForFinished() of stopContainer(); "closed"
  asked,      \* the size of peer_addresses_
  process_,   \* process_->state() # NotRunning
  client,     \* the docker run process: "none", "creating", "attached", "gone"
  peers,      \* how many peers it was given in PEERS
  container,  \* allblue-node: "none", "entry" (entrypoint.sh), "switch" (vswitch)
  stops,      \* docker stop processes that have not reached the container
  launching,  \* launch scripts waiting for the password ...
  sleeping,   \* ... and between pkill and the start of the helper
  launched,   \* helpers started so far
  killing,    \* kill scripts waiting for the password
  \* History variables.
  served,     \* the number of peers of the latest container
  owed        \* what must end because the window was closed

dockerVars == <<client, peers, container, served>>
scriptVars == <<launching, sleeping, launched, killing>>
guiVars    == <<gui, asked, process_>>
appVars    == <<guiVars, dockerVars, stops, scriptVars, owed>>
vars       == <<appVars, tunnelVars>>

Init ==
  /\ gui = "idle" /\ asked = 0 /\ process_ = FALSE
  /\ client = "none" /\ peers = 0 /\ container = "none" /\ stops = 0
  /\ launching = 0 /\ sleeping = 0 /\ launched = 0 /\ killing = 0
  /\ served = 0 /\ owed = {}
  /\ TunnelInit

----------------------------------------------------------------------------
(* The window and the controller.                                          *)

\* QProcess::start() with n peers, which does nothing while the process runs,
\* and launchTunnel(), which does not ask.
RunAndLaunch(n) ==
  /\ IF client \in {"none", "gone"}
       THEN process_' = TRUE /\ client' = "creating" /\ peers' = n
       ELSE UNCHANGED <<process_, client, peers>>
  /\ launching' = launching + 1
  /\ UNCHANGED <<container, served, sleeping, launched, killing>>

\* docker stop, and SIGTERM to the client: an attached one hands it on to a
\* process 1 that ignores it, an earlier one may end.
StopContainer ==
  /\ stops' = stops + 1
  /\ client' \in IF client = "creating" THEN {"creating", "gone"} ELSE {client}
  /\ UNCHANGED <<process_, peers, container, served>>

\* start(), up to the wait if there is one
AddPeer ==
  /\ gui = "idle" /\ asked < MaxPeers
  /\ asked' = asked + 1
  /\ IF process_
       THEN gui' = "adding" /\ StopContainer /\ UNCHANGED scriptVars
       ELSE RunAndLaunch(asked + 1) /\ UNCHANGED <<gui, stops>>
  /\ UNCHANGED <<owed, tunnelVars>>

\* The client has ended, or three seconds have passed.
AddPeerGoesOn ==
  /\ gui = "adding"
  /\ gui' = "idle"
  /\ RunAndLaunch(asked)
  /\ UNCHANGED <<asked, stops, owed, tunnelVars>>

\* What is owed when the window is closed: the end of the container, and that of
\* the helpers if docker runs and no script is still about to start one.
Debt ==
  (IF container # "none" THEN {"container"} ELSE {})
    \cup (IF client \in {"creating", "attached"} /\ launching + sleeping = 0
            THEN {"helpers"} ELSE {})

\* Mutant: the client is told to end, the container is not
CloseClientOnly ==
  /\ gui = "idle"
  /\ gui' = IF process_ THEN "closing" ELSE "closed"
  /\ owed' = Debt
  /\ UNCHANGED <<asked, process_, dockerVars, stops, scriptVars, tunnelVars>>

\* closeEvent(): stop(), up to the wait if there is one
Close ==
  /\ gui = "idle"
  /\ gui' = IF process_ THEN "closing" ELSE "closed"
  /\ owed' = Debt
  /\ IF process_ THEN StopContainer ELSE UNCHANGED <<process_, dockerVars, stops>>
  /\ UNCHANGED <<asked, scriptVars, tunnelVars>>

\* Mutant: wasRunning is read after stopContainer()
CloseGoesOnAfterwards ==
  /\ gui = "closing"
  /\ gui' = "closed" /\ process_' = FALSE /\ client' = "gone"
  /\ killing' = IF client = "gone" THEN killing ELSE killing + 1
  /\ UNCHANGED <<asked, peers, container, served, stops, launching, sleeping, launched,
                 owed, tunnelVars>>

\* killTunnel(), and the destructor of the QProcess kills the client
CloseGoesOn ==
  /\ gui = "closing"
  /\ gui' = "closed" /\ process_' = FALSE /\ client' = "gone"
  /\ killing' = killing + 1
  /\ UNCHANGED <<asked, peers, container, served, stops, launching, sleeping, launched,
                 owed, tunnelVars>>

\* The event loop learns that the client has ended.
Finished ==
  /\ gui = "idle" /\ process_ /\ client = "gone"
  /\ process_' = FALSE
  /\ UNCHANGED <<gui, asked, dockerVars, stops, scriptVars, owed, tunnelVars>>

----------------------------------------------------------------------------
(* Docker and the container.                                               *)

ContainerStarts ==
  /\ client = "creating"
  /\ client' = "attached" /\ container' = "entry" /\ served' = peers
  /\ UNCHANGED <<guiVars, peers, stops, scriptVars, owed, tunnelVars>>

\* With --rm the client ends when the container is gone.
ClientEnds ==
  /\ client = "attached" /\ container = "none"
  /\ client' = "gone"
  /\ UNCHANGED <<guiVars, peers, container, served, stops, scriptVars, owed, tunnelVars>>

ContainerEnds ==
  /\ container' = "none" /\ RelayStops
  /\ UNCHANGED <<guiVars, client, peers, served, scriptVars, owed>>

\* A docker stop kills the container there is, if there is one.
DockerStop ==
  /\ stops > 0 /\ stops' = stops - 1
  /\ IF container = "none"
       THEN UNCHANGED <<guiVars, dockerVars, scriptVars, owed, tunnelVars>>
       ELSE ContainerEnds

\* relay "$TUNNEL_PORT" &
RelayComesUp ==
  /\ container = "entry" /\ RelayStarts
  /\ UNCHANGED <<guiVars, dockerVars, stops, scriptVars, owed>>

\* The entry point has waited fifteen seconds for tun0, in vain.
EntryFails ==
  /\ container = "entry" /\ ~ relay_up
  /\ ContainerEnds /\ UNCHANGED stops

\* exec vswitch, with the same local port for every peer: of two peers the
\* probe may have moved the first one out of the way, of three it cannot.
SwitchStarts ==
  /\ container = "entry" /\ relay_up /\ peers <= 2
  /\ container' = "switch"
  /\ UNCHANGED <<guiVars, client, peers, served, stops, scriptVars, owed, tunnelVars>>

SwitchFails ==
  /\ container = "entry" /\ relay_up /\ peers >= 2
  /\ ContainerEnds /\ UNCHANGED stops

----------------------------------------------------------------------------
(* The scripts, which nobody waits for and which run side by side.         *)

\* pkill -x allblue-utun; sleep 0.3
LaunchKills ==
  /\ launching > 0
  /\ launching' = launching - 1 /\ sleeping' = sleeping + 1
  /\ HelpersKilled
  /\ UNCHANGED <<guiVars, dockerVars, stops, launched, killing, owed>>

LaunchStarts ==
  /\ sleeping > 0
  /\ sleeping' = sleeping - 1 /\ launched' = launched + 1
  /\ HelperStarts(launched + 1)
  /\ UNCHANGED <<guiVars, dockerVars, stops, launching, killing, owed>>

KillScript ==
  /\ killing > 0
  /\ killing' = killing - 1
  /\ HelpersKilled
  /\ UNCHANGED <<guiVars, dockerVars, stops, launching, sleeping, launched, owed>>

\* The user cancels the dialogue.
LaunchRefused ==
  /\ launching > 0
  /\ launching' = launching - 1
  /\ UNCHANGED <<guiVars, dockerVars, stops, sleeping, launched, killing, owed, tunnelVars>>

KillRefused ==
  /\ killing > 0
  /\ killing' = killing - 1 /\ owed' = owed \ {"helpers"}
  /\ UNCHANGED <<guiVars, dockerVars, stops, launching, sleeping, launched, tunnelVars>>

----------------------------------------------------------------------------
Window  == AddPeerGoesOn \/ CloseGoesOn \/ Finished
Docker  == ContainerStarts \/ ClientEnds \/ RelayComesUp \/ SwitchStarts \/ SwitchFails
Scripts == LaunchKills \/ LaunchStarts \/ KillScript

Network == (Traffic \/ Loops) /\ UNCHANGED appVars

Next ==
  \/ AddPeer \/ Close \/ Window
  \/ Docker \/ DockerStop \/ EntryFails
  \/ Scripts \/ LaunchRefused \/ KillRefused
  \/ Network

Spec == Init /\ [][Next]_vars

\* What runs goes on: the event loop, the daemon, a docker stop, each script, and
\* the loops of the relay and of each helper.
Fairness ==
  /\ WF_vars(Window) /\ WF_vars(Docker) /\ WF_vars(DockerStop)
  /\ WF_vars(LaunchKills) /\ WF_vars(LaunchStarts) /\ WF_vars(KillScript)
  /\ WF_vars(RelayRound /\ UNCHANGED appVars)
  /\ \A h \in Helper : WF_vars((HelperRound(h) \/ HelperIdle(h)) /\ UNCHANGED appVars)

FairSpec == Spec /\ Fairness

----------------------------------------------------------------------------
(* Correctness.                                                            *)

TypeOK ==
  /\ gui \in {"idle", "adding", "closing", "closed"}
  /\ asked \in 0 .. MaxPeers /\ process_ \in BOOLEAN
  /\ client \in {"none", "creating", "attached", "gone"}
  /\ peers \in 0 .. MaxPeers /\ served \in 0 .. MaxPeers
  /\ container \in {"none", "entry", "switch"}
  /\ stops \in Nat /\ launching \in Nat /\ sleeping \in Nat /\ killing \in Nat
  /\ launched \in Nat /\ launched + launching + sleeping <= MaxPeers
  /\ owed \subseteq {"container", "helpers"}
  /\ TunnelTypeOK

\* A container that was there when the window was closed ends, and none comes
\* after it.
ContainerIsStopped == ("container" \in owed) ~> [](container = "none")

\* When the window is closed while docker runs, the helpers end for good, if no
\* script was still about to start one and the user grants the kill script its
\* password.  With docker ended before, because the switch failed or a stopped
\* container was not replaced, nothing is owed: stop() then ends no helper, and one
\* that is alive stays.
HelpersAreKilled ==
  ("helpers" \in owed) ~> ("helpers" \notin owed \/ [](helpers = {}))

\* What the documentation says: the app starts the switch with the peer that was
\* added, unless another one is added or the window is closed.
AskedPeersAreServed ==
  \A n \in 1 .. MaxPeers :
    (asked = n /\ gui # "closed") ~> (served = n \/ asked # n \/ gui = "closed")

=============================================================================
