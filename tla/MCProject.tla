------------------------------ MODULE MCProject ------------------------------
(* A saved project with its shares, or with the launches that hand it to   *)
(* the companion.  The two share no state, so TLC explores them one beside *)
(* the other; the actors of the launches have the names of those of the    *)
(* sharing, so that the same permutations serve both.                      *)
EXTENDS ProjectSharing, TLC

CONSTANTS
  Replicas, ActiveTTL, Retries, LaunchFaults, MaxClock, MaxVersion, NoLaunch, NoCompanion, NoRequest

VARIABLES side, clock, version, purging, launches, restarted, creator, asked, companion, claim

Launch == INSTANCE CalculatorLaunchProofs WITH
  Launches <- Editors, Creators <- Sharers, Companions <- Deleters, Faults <- LaunchFaults,
  project <- version, deleting <- purging

ASSUME LaunchAssumption == Launch!LaunchAssumption

\* requests of a kind are alike, and so are launch ids and companion instances
Alike == Permutations(Editors) \cup Permutations(Sharers) \cup Permutations(Deleters)

launchVars == <<clock, version, purging, launches, restarted, creator, asked, companion, claim>>

ProjectInit ==
  /\ side \in {"sharing", "launch"}
  /\ IF side = "sharing" THEN Init
     ELSE /\ project = NoProject /\ shares = {} /\ editor = 0 /\ opened = 0 /\ draft = 0
          /\ revision = 0 /\ sharer = 0 /\ deleter = [d \in Deleters |-> "idle"] /\ listed = 0
  /\ IF side = "launch" THEN Launch!Init
     ELSE /\ clock = 0 /\ version = 0 /\ purging = FALSE /\ launches = 0 /\ restarted = {}
          /\ creator = 0 /\ asked = 0 /\ companion = 0 /\ claim = 0

ProjectNext ==
  /\ UNCHANGED side
  /\ \/ side = "sharing" /\ Next /\ UNCHANGED launchVars
     \/ side = "launch" /\ Launch!Next /\ UNCHANGED vars

ProjectSpec == ProjectInit /\ [][ProjectNext]_<<side, vars, launchVars>>

OneReady == side = "launch" => Launch!OneReady
ClaimantsEtagHolds == side = "launch" => Launch!ClaimantsEtagHolds
AcknowledgedIsErased == side = "launch" => Launch!AcknowledgedIsErased
=============================================================================
