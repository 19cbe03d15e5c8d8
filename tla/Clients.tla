------------------------------- MODULE Clients -------------------------------
(***************************************************************************)
(* A tab of the web console and a user of the command line, with one       *)
(* server: each may find its device released, expired or taken by the      *)
(* other when an answer arrives.  Names begin with Clients where those of  *)
(* the server's registry would clash, which its proofs use together.       *)
(***************************************************************************)
EXTENDS WebConsole, CliSession

clientsVars == <<apiVars, webVars, cliVars>>

ClientsTypeOK == ApiTypeOK /\ WebTypeOK /\ CliTypeOK

ClientsInit == ApiInit /\ WebInit /\ CliInit

ClientsTick == WebTick /\ TimePasses /\ UNCHANGED cliVars

SweepStep == Sweep /\ UNCHANGED <<webVars, cliVars>>
ReclaimStep == Reclaim /\ UNCHANGED <<webVars, cliVars>>
ServeStep == \E r \in requests : Served(r) /\ UNCHANGED cliVars
AnswerStep == \E r \in requests : Answered(r) /\ UNCHANGED cliVars

ClientsNext ==
  \/ WebStep /\ UNCHANGED <<apiVars, cliVars>>
  \/ ServeStep \/ AnswerStep
  \/ UserRuns /\ UNCHANGED <<apiVars, webVars>>
  \/ (CommandServed \/ CommandAnswered \/ CommandKilled) /\ UNCHANGED webVars
  \/ SweepStep \/ ReclaimStep \/ ClientsTick

ClientsSpec == ClientsInit /\ [][ClientsNext]_clientsVars

ClientsFairness ==
  /\ WF_clientsVars(ClientsTick) /\ WF_clientsVars(SweepStep)
  /\ WF_clientsVars(ServeStep \/ AnswerStep)
  /\ WF_clientsVars(KeepaliveFires /\ UNCHANGED <<apiVars, cliVars>>)
  /\ WF_clientsVars((StreamConnects \/ StreamRevoked \/ StreamRetries) /\ UNCHANGED <<apiVars, cliVars>>)

ClientsFairSpec == ClientsSpec /\ ClientsFairness

-------------------------------------------------------------------------------
(* While the user acts at least every IdleLimit, the occupation is not     *)
(* reclaimed as idle: no poll, late answer or lost keepalive starves the   *)
(* keepalive of useOccupationKeepalive.                                    *)
KeptAlive == [][SweepStep => ~(steady /\ Holds(session) /\ session.dev \in Expired)]_clientsVars

(* A tab nobody uses does not hold its device for good, however long it    *)
(* stays open: the keepalive stops and the server's TTL frees the device.  *)
UsersAct == (UserClicks /\ UNCHANGED <<apiVars, cliVars>>) \/ (UserRuns /\ UNCHANGED <<apiVars, webVars>>)
AbandonedIsFreed ==
  (<>[][~UsersAct]_clientsVars) => \A d \in Devices : []<>(owner[d] = Nobody)

(* A session the server no longer honours does not stay on the screen of a *)
(* connected tab, unless keepalive and stream have both stopped.           *)
StaleSessionEnds ==
  (session # NoSession /\ ~Holds(session))
    ~> (session = NoSession \/ Holds(session) \/ ~connected
          \/ (idle > IdleLimit /\ stream = "ended"))

(* The command line gives up its stored session only when the server does  *)
(* not honour it any more or the user asks for it.                         *)
CliForgetsForCause == [][
  (file # NoFile /\ file' = NoFile) => (owner[file.dev] # file.id \/ SessionClear)]_clientsVars

(* DeviceCard: a device is not occupied while another one is, since the    *)
(* new occupantId would overwrite the one that can release the first.      *)
OneSessionAtATime == [][
  (Holds(session) /\ session' # NoSession) => session' = session]_clientsVars

(* App.handleRelease: a session the server honours is not given up.  It    *)
(* is, when the answer to a button comes after the next occupation began.  *)
HonouredIsKept == [][Holds(session) => session' # NoSession]_clientsVars
==============================================================================
