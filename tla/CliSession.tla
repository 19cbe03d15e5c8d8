------------------------------ MODULE CliSession ------------------------------
(***************************************************************************)
(* The nebula command line: one command at a time, each of which reads the *)
(* stored session, sends one request, and writes or clears the session by  *)
(* its answer.  A command may be killed at any point.                      *)
(***************************************************************************)
EXTENDS FarmApi

CONSTANTS EnvIds   \* what NEBULA_OCCUPANT_ID may hold: {Nobody} when it is never set

ASSUME CliAssumption == EnvIds \subseteq Ids \union {Nobody}

NoFile == [dev |-> "none", id |-> Nobody]
NoFlag == "none"
Idle == [cmd |-> "none"]

VARIABLES
  file,     \* the stored session, NoFile when there is none
  command   \* the command that runs, its target, and whether its flags name the session

cliVars == <<file, command>>

Commands ==
  [cmd : {"occupy", "release", "keepalive", "action"}, dev : Devices, id : Ids \union {Nobody},
   aimed : BOOLEAN, answer : Answers]

CliTypeOK ==
  /\ file \in [dev : Devices, id : Ids] \union {NoFile}
  /\ command \in Commands \union {Idle}

CliInit == file = NoFile /\ command = Idle

(* deviceId: flag, then session *)
TargetDevice(flagDev) == IF flagDev # NoFlag THEN flagDev ELSE file.dev

(* occupantId: flag, then environment, then the session of this device *)
TargetId(d, flagId, env) ==
  IF flagId # Nobody THEN flagId
  ELSE IF env # Nobody THEN env
  ELSE IF file.dev = d THEN file.id ELSE Nobody

(* No flag contradicts the stored session. *)
AimedAtSession(flagDev, flagId) ==
  file # NoFile /\ flagDev \in {NoFlag, file.dev} /\ flagId \in {Nobody, file.id}

Runs(cmd, d, id, aimed) ==
  command' = [cmd |-> cmd, dev |-> d, id |-> id, aimed |-> aimed, answer |-> Pending]

(* devices occupy, for a device given by its id or any that fits *)
RunOccupy(d) ==
  /\ command = Idle
  /\ Runs("occupy", d, Nobody, AimedAtSession(NoFlag, Nobody))
  /\ UNCHANGED file

RunOnTarget(cmd, flagDev, flagId, env) ==
  /\ command = Idle
  /\ LET d == TargetDevice(flagDev) IN
       /\ d \in Devices /\ TargetId(d, flagId, env) # Nobody
       /\ Runs(cmd, d, TargetId(d, flagId, env), AimedAtSession(flagDev, flagId))
  /\ UNCHANGED file

(* devices session --clear *)
SessionClear == command = Idle /\ file' = NoFile /\ UNCHANGED command

CommandServed ==
  /\ command # Idle /\ command.answer = Pending
  /\ \E answer \in Answers :
       Serve(command.cmd, command.dev, command.id, answer) /\ command' = [command EXCEPT !.answer = answer]
  /\ UNCHANGED file

Succeeded ==
  /\ command.answer.status = 200
  /\ file' = IF command.cmd = "occupy" THEN [dev |-> command.dev, id |-> command.answer.id]
             ELSE IF command.cmd = "release" /\ file.dev = command.dev THEN NoFile
             ELSE file

(* mutant: whatever the command was aimed at *)
InvalidForAnyone ==
  /\ file # NoFile
  /\ \/ command.answer.status = 403
     \/ command.answer.status = 409 /\ command.cmd \in {"keepalive", "release"}

(* The answer says that the session is over, and the command was aimed at it. *)
SessionInvalid ==
  /\ command.aimed
  /\ \/ command.answer.status = 403
     \/ command.answer.status = 409 /\ command.cmd \in {"keepalive", "release"}

Refused ==
  /\ command.answer.status # 200
  /\ file' = IF SessionInvalid THEN NoFile ELSE file

CommandAnswered ==
  /\ command # Idle /\ command.answer # Pending
  /\ Succeeded \/ Refused
  /\ command' = Idle /\ UNCHANGED apiVars

CommandKilled == command # Idle /\ command' = Idle /\ UNCHANGED <<file, apiVars>>

UserRuns ==
  \/ \E d \in Devices : RunOccupy(d)
  \/ \E cmd \in {"release", "keepalive", "action"}, flagDev \in Devices \union {NoFlag},
        flagId \in 0..issued, env \in EnvIds : RunOnTarget(cmd, flagDev, flagId, env)
  \/ SessionClear
===============================================================================
