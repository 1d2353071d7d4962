---------------------------- MODULE PlatformProofs ----------------------------
(***************************************************************************)
(* Proofs about Platform, for any machines and any number of releases,     *)
(* commands and failures.  Inv is inductive and carries what is said of    *)
(* the files and of /cleanup.                                              *)
(***************************************************************************)
EXTENDS Platform, TLAPS

(* The stamp is never that of a release to come, it vouches for every      *)
(* part, and while parts are copied it vouches for nothing.                *)
StampVouches ==
  /\ stamp <= version
  /\ stamp = version => \A p \in Part : files[p] = version
  /\ command.at = "copy" =>
       /\ stamp # version
       /\ command.n <= Len(Parts)
       /\ \A i \in 1 .. command.n : files[Parts[i]] = version
  /\ command.at \in {"up", "pull"} \/ (command.at = "down" /\ command.clean) => stamp = version

(* What /cleanup has done when it comes to the volumes.                    *)
Emptied == db = "none" /\ orchestrator = "none" /\ api = NoApi
CleanEmpties ==
  command.kind = "cleanup" /\ command.at = "volumes" /\ command.clean => Emptied

(* startServer() is at one of its statements, or past the last.            *)
ApiCounts == api.n \in 0 .. Len(ApiOrder)

Inv == PlatformTypeOK /\ StampVouches /\ CleanEmpties /\ ApiCounts

(* The values that are not built step by step.                             *)
LEMMA Values ==
  /\ Idle \in CommandType /\ Idle.kind = "none" /\ Idle.at = "none"
  /\ NoApi \in ApiType /\ NoApi.at = "none" /\ NoApi.n = 0 /\ NoApi.persistent = FALSE
  /\ Boot \in ApiType /\ Boot.at = "connects" /\ Boot.n = 0 /\ Boot.persistent = FALSE
  BY DEF Idle, NoApi, Boot, CommandType, ApiType, Kind, ApiStage, CommandStage

LEMMA PartsLen == Len(Parts) = 3 /\ Part = {Parts[1], Parts[2], Parts[3]}
  BY DEF Part, Parts

(* How a command's record changes, for each way the actions change it.     *)
LEMMA GoesTo ==
  ASSUME NEW c \in CommandType, NEW s \in CommandStage
  PROVE  LET d == [c EXCEPT !.at = s, !.n = 0]
         IN /\ d \in CommandType /\ d.at = s /\ d.n = 0
            /\ d.kind = c.kind /\ d.clean = c.clean /\ d.raced = c.raced
  BY DEF CommandType

LEMMA GoesOnTo ==
  ASSUME NEW c \in CommandType, NEW s \in CommandStage
  PROVE  LET d == [c EXCEPT !.at = s, !.n = 0, !.clean = FALSE]
         IN d \in CommandType /\ d.at = s /\ d.kind = c.kind /\ d.clean = FALSE
  BY DEF CommandType

LEMMA Counts ==
  ASSUME NEW c \in CommandType, NEW k \in Nat
  PROVE  LET d == [c EXCEPT !.n = k]
         IN /\ d \in CommandType /\ d.at = c.at /\ d.n = k
            /\ d.kind = c.kind /\ d.clean = c.clean /\ d.raced = c.raced
  BY DEF CommandType

LEMMA Dirties ==
  ASSUME NEW c \in CommandType
  PROVE  LET d == [c EXCEPT !.clean = FALSE]
         IN d \in CommandType /\ d.at = c.at /\ d.kind = c.kind /\ d.n = c.n /\ d.clean = FALSE
  BY DEF CommandType

LEMMA Begins ==
  ASSUME NEW k \in Kind, NEW s \in CommandStage
  PROVE  LET d == [Idle EXCEPT !.kind = k, !.at = s]
         IN d \in CommandType /\ d.at = s /\ d.kind = k /\ d.clean = TRUE
  BY DEF CommandType, Idle

(* And how the record of the API server changes.                           *)
LEMMA Serves ==
  ASSUME NEW s \in ApiStage, NEW p \in BOOLEAN
  PROVE  LET d == [at |-> s, n |-> 0, persistent |-> p]
         IN d \in ApiType /\ d.at = s /\ d.n = 0 /\ d.persistent = p
  BY DEF ApiType

LEMMA Boots ==
  LET d == [Boot EXCEPT !.at = "creates"]
  IN d \in ApiType /\ d.at = "creates" /\ d.n = 0 /\ d.persistent = FALSE
  BY DEF ApiType, Boot, ApiStage

LEMMA GoesOn ==
  ASSUME NEW a \in ApiType, NEW s \in ApiStage
  PROVE  LET d == [a EXCEPT !.at = s]
         IN d \in ApiType /\ d.at = s /\ d.n = a.n /\ d.persistent = a.persistent
  BY DEF ApiType

LEMMA Creates ==
  ASSUME NEW a \in ApiType
  PROVE  LET d == [a EXCEPT !.n = @ + 1]
         IN d \in ApiType /\ d.at = a.at /\ d.n = a.n + 1 /\ d.persistent = a.persistent
  BY DEF ApiType

LEMMA TableNames ==
  /\ Len(ApiOrder) = 4 /\ Len(StartOrder) = 3 /\ Drops = 3
  /\ Tables = {ApiOrder[1], ApiOrder[2], ApiOrder[3], ApiOrder[4]}
  /\ StartOrder[1] = ApiOrder[2] /\ StartOrder[2] = ApiOrder[1] /\ StartOrder[3] = ApiOrder[3]
  /\ ApiOrder[1] # ApiOrder[4] /\ ApiOrder[2] # ApiOrder[4] /\ ApiOrder[3] # ApiOrder[4]
  /\ ApiOrder[1] # ApiOrder[2] /\ ApiOrder[2] # ApiOrder[3] /\ ApiOrder[1] # ApiOrder[3]
  /\ ApiOrder[4] = "topology_templates"
  BY DEF ApiOrder, StartOrder, Tables, Drops

LEMMA InitInv == Init => Inv
<1> SUFFICES ASSUME Init PROVE Inv
  OBVIOUS
<1>0. command \in CommandType /\ command.at = "none" /\ command.kind = "none" /\ api \in ApiType
  BY Values DEF Init
<1>1. PlatformTypeOK
  <2>1. /\ MaxVersion \in Nat /\ MaxVersion > 0 /\ MaxCommands \in Nat /\ MaxFailures \in Nat
    BY PlatformAssumption
  <2>2. files \in [Part -> 0 .. MaxVersion]
    BY <2>1 DEF Init
  <2>3. /\ version \in 1 .. MaxVersion /\ stamp \in 0 .. MaxVersion
        /\ commands \in 0 .. MaxCommands /\ failures \in 0 .. MaxFailures
    BY <2>1 DEF Init
  <2>4. tables \subseteq Tables /\ templates \in BOOLEAN
    BY DEF Init
  <2>. QED
    BY <1>0, <2>2, <2>3, <2>4 DEF Init, PlatformTypeOK, Answer
<1>2. StampVouches
  BY <1>0 DEF Init, StampVouches
<1>3. CleanEmpties
  BY <1>0 DEF CleanEmpties
<1>4. ApiCounts
  BY TableNames DEF Init, NoApi, ApiCounts
<1>. QED
  BY <1>1, <1>2, <1>3, <1>4 DEF Inv

LEMMA Bounds ==
  MaxVersion \in Nat /\ MaxVersion > 0 /\ MaxCommands \in Nat /\ MaxFailures \in Nat
  BY PlatformAssumption

LEMMA Fails == Inv /\ (Working \/ Failing) => failures' \in 0 .. MaxFailures
  BY Bounds DEF Inv, PlatformTypeOK, Working, Failing

(* What a step of the containers has to show: it leaves the files and the  *)
(* stamp alone.                                                            *)
LEMMA ContainerKeeps ==
  ASSUME Inv, UNCHANGED <<host, version, files, stamp, answer, commands>>,
         UNCHANGED <<command, failures>>, CleanEmpties', ApiCounts', api' \in ApiType,
         db' \in {"none", "starts", "ready"}, orchestrator' \in {"none", "starts", "healthy"},
         tables' \subseteq Tables, templates' \in BOOLEAN
  PROVE  Inv'
<1>1. PlatformTypeOK'
  BY DEF Inv, PlatformTypeOK
<1>2. StampVouches'
  BY DEF Inv, StampVouches
<1>. QED
  BY <1>1, <1>2 DEF Inv

(* There is nothing for the containers to do once a clean /cleanup has     *)
(* come to the volumes.                                                    *)
LEMMA ContainerInv == Inv /\ Container /\ UNCHANGED host => Inv'
<1> SUFFICES ASSUME Inv, Container, UNCHANGED host PROVE Inv'
  OBVIOUS
<1>. UNCHANGED <<version, files, stamp, answer, commands>>
  BY DEF Container, extracted
<1>t. /\ api \in ApiType /\ db \in {"none", "starts", "ready"}
      /\ orchestrator \in {"none", "starts", "healthy"}
      /\ tables \subseteq Tables /\ templates \in BOOLEAN /\ command \in CommandType
      /\ CleanEmpties /\ ApiCounts
  BY DEF Inv, PlatformTypeOK
<1>1. CASE DbStarts
  <2>1. UNCHANGED <<command, failures, api, orchestrator, tables, templates>> /\ db = "starts" /\ db' = "ready"
    BY <1>1 DEF DbStarts, Working, data
  <2>2. CleanEmpties' /\ ApiCounts'
    BY <1>t, <2>1 DEF CleanEmpties, Emptied, ApiCounts
  <2>. QED
    BY <1>t, <2>1, <2>2, ContainerKeeps
<1>2. CASE OrchestratorStarts
  <2>1. /\ UNCHANGED <<command, failures, api, db, tables, templates>>
        /\ orchestrator = "starts" /\ orchestrator' = "healthy"
    BY <1>2 DEF OrchestratorStarts, Working, data
  <2>2. CleanEmpties' /\ ApiCounts'
    BY <1>t, <2>1 DEF CleanEmpties, Emptied, ApiCounts
  <2>. QED
    BY <1>t, <2>1, <2>2, ContainerKeeps
<1>3. CASE ApiConnects
  <2>1. UNCHANGED <<command, failures, orchestrator, db, tables, templates>> /\ api.at = "connects"
    BY <1>3 DEF ApiConnects, Working, data
  <2>2. api' \in ApiType /\ api'.n = 0
    BY <1>3, Boots, Serves DEF ApiConnects, Unpersistent, ApiStage
  <2>3. CleanEmpties' /\ ApiCounts'
    BY <1>t, <2>1, <2>2, Values, TableNames DEF CleanEmpties, Emptied, ApiCounts
  <2>. QED
    BY <1>t, <2>1, <2>2, <2>3, ContainerKeeps
<1>4. CASE ApiCreates
  <2>1. UNCHANGED <<command, failures, orchestrator, db, templates>> /\ api.at = "creates"
    BY <1>4 DEF ApiCreates, Working
  <2>2. \/ Unpersistent /\ UNCHANGED tables
        \/ api' = [api EXCEPT !.at = "templates"] /\ UNCHANGED tables
        \/ /\ api.n # Len(ApiOrder) /\ tables' = tables \cup {ApiOrder[api.n + 1]}
           /\ api' = [api EXCEPT !.n = @ + 1]
    BY <1>4 DEF ApiCreates
  <2>3. api' \in ApiType /\ ApiCounts' /\ tables' \subseteq Tables
    <3>1. CASE Unpersistent /\ UNCHANGED tables
      <4>1. api' \in ApiType /\ api'.n = 0
        BY <3>1, Serves DEF Unpersistent, ApiStage
      <4>. QED
        BY <3>1, <4>1, <1>t, TableNames DEF ApiCounts
    <3>2. CASE api' = [api EXCEPT !.at = "templates"] /\ UNCHANGED tables
      BY <3>2, <1>t, GoesOn DEF ApiStage, ApiCounts
    <3>3. CASE /\ api.n # Len(ApiOrder) /\ tables' = tables \cup {ApiOrder[api.n + 1]}
               /\ api' = [api EXCEPT !.n = @ + 1]
      <4>1. api' \in ApiType /\ api'.n = api.n + 1
        BY <3>3, <1>t, Creates
      <4>2. api.n \in {0, 1, 2, 3}
        BY <3>3, <1>t, TableNames DEF ApiCounts
      <4>3. ApiOrder[api.n + 1] \in Tables
        BY <4>2, TableNames
      <4>4. ApiCounts'
        BY <4>1, <4>2, TableNames DEF ApiCounts
      <4>5. tables' \subseteq Tables
        BY <3>3, <4>3, <1>t
      <4>. QED
        BY <4>1, <4>4, <4>5
    <3>. QED
      BY <2>2, <3>1, <3>2, <3>3
  <2>4. CleanEmpties'
    BY <1>t, <2>1, Values DEF CleanEmpties, Emptied
  <2>. QED
    BY <1>t, <2>1, <2>3, <2>4, ContainerKeeps
<1>5. CASE ApiFillsTemplates
  <2>1. /\ UNCHANGED <<command, failures, orchestrator, db, tables>> /\ api.at = "templates"
        /\ api' = [at |-> "listens", n |-> 0, persistent |-> TRUE]
    BY <1>5 DEF ApiFillsTemplates, Working
  <2>2. api' \in ApiType /\ api'.n = 0
    BY <2>1, Serves DEF ApiStage
  <2>3. CleanEmpties' /\ ApiCounts'
    BY <1>t, <2>1, <2>2, Values, TableNames DEF CleanEmpties, Emptied, ApiCounts
  <2>4. templates' \in BOOLEAN
    BY <1>5 DEF ApiFillsTemplates
  <2>. QED
    BY <1>t, <2>1, <2>2, <2>3, <2>4, ContainerKeeps
<1>6. CASE ApiListens
  <2>1. UNCHANGED <<command, failures, orchestrator, db, tables, templates>> /\ api.at = "listens"
    BY <1>6 DEF ApiListens, Working, data
  <2>2. api' \in ApiType /\ api'.n = api.n
    BY <1>6, <1>t, GoesOn DEF ApiListens, ApiStage
  <2>3. CleanEmpties' /\ ApiCounts'
    BY <1>t, <2>1, <2>2, Values DEF CleanEmpties, Emptied, ApiCounts
  <2>. QED
    BY <1>t, <2>1, <2>2, <2>3, ContainerKeeps
<1>7. CASE Restarts
  <2>1. /\ UNCHANGED <<orchestrator, tables, templates>>
        /\ db' \in {db, "starts"} /\ api' \in {api, Boot}
    BY <1>7 DEF Restarts, data
  <2>2. /\ command' \in CommandType /\ command'.at = command.at /\ command'.n = command.n
        /\ command'.at = "none" \/ command'.clean = FALSE
    <3>1. CASE command = Idle
      BY <3>1, <1>7, <1>t, Values DEF Restarts
    <3>2. CASE command # Idle
      <4>1. command' = [command EXCEPT !.clean = FALSE]
        BY <3>2, <1>7 DEF Restarts
      <4>. QED
        BY <4>1, <1>t, Dirties
    <3>. QED
      BY <3>1, <3>2
  <2>3. failures' \in 0 .. MaxFailures
    BY <1>7, Fails DEF Restarts
  <2>4. PlatformTypeOK'
    BY <2>1, <2>2, <2>3, <1>t, Values DEF Inv, PlatformTypeOK
  <2>5. StampVouches'
    BY <2>2 DEF Inv, StampVouches
  <2>6. CleanEmpties' /\ ApiCounts'
    BY <2>1, <2>2, <1>t, Values, TableNames DEF CleanEmpties, ApiCounts
  <2>. QED
    BY <2>4, <2>5, <2>6 DEF Inv
<1>. QED
  BY <1>1, <1>2, <1>3, <1>4, <1>5, <1>6, <1>7 DEF Container

(* What a step of a command has to show that copies no file: the command   *)
(* does not come to copy, and to Compose only by the right stamp.          *)
LEMMA CommandKeeps ==
  ASSUME Inv, UNCHANGED <<host, version, extracted, commands>>, Working \/ Failing,
         command' \in CommandType, command'.at # "copy",
         command'.at \in {"up", "pull", "down"} => stamp = version,
         answer' \in Answer, CleanEmpties', ApiCounts', api' \in ApiType,
         db' \in {"none", "starts", "ready"}, orchestrator' \in {"none", "starts", "healthy"},
         tables' \subseteq Tables, templates' \in BOOLEAN
  PROVE  Inv'
<1>. UNCHANGED <<files, stamp>>
  BY DEF extracted
<1>1. PlatformTypeOK'
  BY Fails DEF Inv, PlatformTypeOK
<1>2. StampVouches'
  BY DEF Inv, StampVouches
<1>. QED
  BY <1>1, <1>2 DEF Inv

(* And one that leaves the containers and the database alone, too.         *)
LEMMA CommandMoves ==
  ASSUME Inv, UNCHANGED <<host, version, extracted, commands>>, UNCHANGED <<containers, data>>,
         Working \/ Failing, command' \in CommandType, command'.at \notin {"copy", "volumes"},
         command'.at \in {"up", "pull", "down"} => stamp = version, answer' \in Answer
  PROVE  Inv'
<1>. UNCHANGED <<db, orchestrator, api, tables, templates>>
  BY DEF containers, data
<1>1. CleanEmpties'
  BY DEF CleanEmpties
<1>2. ApiCounts'
  BY DEF Inv, ApiCounts
<1>3. /\ api \in ApiType /\ db \in {"none", "starts", "ready"}
      /\ orchestrator \in {"none", "starts", "healthy"}
      /\ tables \subseteq Tables /\ templates \in BOOLEAN
  BY DEF Inv, PlatformTypeOK
<1>. QED
  BY <1>1, <1>2, <1>3, CommandKeeps

LEMMA Returns ==
  ASSUME NEW text \in Answer, Return(text)
  PROVE  command' \in CommandType /\ command'.at = "none" /\ answer' \in Answer
  BY Values DEF Return

LEMMA Going ==
  ASSUME Inv, NEW s \in CommandStage, GoTo(s)
  PROVE  /\ command' \in CommandType /\ command'.at = s /\ command'.n = 0
         /\ command'.kind = command.kind /\ command'.clean = command.clean
  BY GoesTo DEF Inv, PlatformTypeOK, GoTo

LEMMA BeginInv ==
  ASSUME Inv, NEW kind \in Kind, Begin(kind), UNCHANGED <<host, version>> PROVE Inv'
<1>1. command' \in CommandType /\ command'.at \in {"confirm", "prerequisites"}
  <2>1. PICK s \in {"confirm", "prerequisites"} : command' = [Idle EXCEPT !.kind = kind, !.at = s]
    BY DEF Begin
  <2>2. s \in CommandStage
    BY DEF CommandStage
  <2>3. command' \in CommandType /\ command'.at = s
    BY <2>1, <2>2, Begins
  <2>. QED
    BY <2>3
<1>2. commands' \in 0 .. MaxCommands
  BY Bounds DEF Begin, Inv, PlatformTypeOK
<1>. UNCHANGED <<files, stamp, db, orchestrator, api, tables, templates, failures, answer>>
  BY DEF Begin, extracted, containers, data, Working
<1>3. PlatformTypeOK'
  BY <1>1, <1>2 DEF Inv, PlatformTypeOK
<1>4. StampVouches'
  BY <1>1 DEF Inv, StampVouches
<1>5. CleanEmpties' /\ ApiCounts'
  BY <1>1 DEF CleanEmpties, Inv, ApiCounts
<1>. QED
  BY <1>3, <1>4, <1>5 DEF Inv

(* The stages at which the files are there are not about copying, and only *)
(* /install and /start hand them to Compose.                               *)
LEMMA Stages ==
  ASSUME NEW k \in Kind
  PROVE  /\ WithFiles[k] \in CommandStage \ {"none", "copy", "volumes"}
         /\ k \in {"stop", "cleanup"} => WithFiles[k] \notin {"up", "pull"}
  BY DEF Kind, WithFiles, CommandStage

LEMMA PrerequisitesInv ==
  ASSUME Inv, Prerequisites, UNCHANGED <<host, version>> PROVE Inv'
<1>. UNCHANGED <<extracted, containers, data, commands, files, stamp, failures>>
  BY DEF Prerequisites, Working, extracted
<1>k. command.kind \in Kind
  BY DEF Prerequisites, At
<1>1. CASE Return("failed")
  BY <1>1, Returns, CommandMoves DEF Answer, Working
<1>2. CASE stamp = version /\ GoTo(WithFiles[command.kind]) /\ UNCHANGED answer
  <2>1. command' \in CommandType /\ command'.at \notin {"copy", "volumes"}
    BY <1>2, <1>k, Stages, Going
  <2>. QED
    BY <1>2, <2>1, CommandMoves DEF Working, Inv, PlatformTypeOK
<1>3. CASE stamp # version /\ GoTo("copy") /\ UNCHANGED answer
  <2>1. command' \in CommandType /\ command'.at = "copy" /\ command'.n = 0
    BY <1>3, Going DEF CommandStage
  <2>2. PlatformTypeOK'
    BY <1>3, <2>1 DEF Inv, PlatformTypeOK, containers, data
  <2>3. StampVouches'
    BY <1>3, <2>1, PartsLen DEF Inv, StampVouches
  <2>4. CleanEmpties' /\ ApiCounts'
    BY <2>1 DEF CleanEmpties, Inv, ApiCounts, containers
  <2>. QED
    BY <2>2, <2>3, <2>4 DEF Inv
<1>. QED
  BY <1>1, <1>2, <1>3 DEF Prerequisites, NeedsExtraction

LEMMA ConfirmInv ==
  ASSUME Inv, Confirm, UNCHANGED <<host, version>> PROVE Inv'
<1>. UNCHANGED <<extracted, containers, data, commands>> /\ Working
  BY DEF Confirm
<1>1. CASE GoTo("prerequisites") /\ UNCHANGED answer
  <2>1. command' \in CommandType /\ command'.at = "prerequisites"
    BY <1>1, Going DEF CommandStage
  <2>2. answer' \in Answer
    BY <1>1 DEF Inv, PlatformTypeOK
  <2>. QED
    BY <2>1, <2>2, CommandMoves
<1>2. CASE Return("cancelled")
  BY <1>2, Returns, CommandMoves DEF Answer
<1>. QED
  BY <1>1, <1>2 DEF Confirm

(* A part is copied: the stamp is not that of this release, and does not   *)
(* become it before the last part is there.                                *)
LEMMA ExtractInv ==
  ASSUME Inv, Extract, UNCHANGED <<host, version>> PROVE Inv'
<1>. UNCHANGED <<answer, containers, data, commands, failures>>
  BY DEF Extract, Working
<1>. UNCHANGED <<db, orchestrator, api, tables, templates>>
  BY DEF containers, data
<1>k. /\ command.at = "copy" /\ command.kind \in Kind /\ command \in CommandType
      /\ command.n \in Nat
      /\ files \in [Part -> 0 .. MaxVersion] /\ version \in 1 .. MaxVersion
      /\ stamp \in 0 .. MaxVersion /\ stamp # version
      /\ stamp <= version /\ command.n <= 3
      /\ \A i \in 1 .. command.n : files[Parts[i]] = version
  BY PartsLen DEF Extract, At, Inv, PlatformTypeOK, StampVouches, CommandType
<1>1. CASE CopyPart
  <2>1. /\ command.n \in {0, 1, 2} /\ UNCHANGED stamp
        /\ files' = [files EXCEPT ![Parts[command.n + 1]] = version]
        /\ command' = [command EXCEPT !.n = command.n + 1]
    BY <1>1, <1>k, PartsLen DEF CopyPart
  <2>2. /\ command' \in CommandType /\ command'.at = "copy" /\ command'.n = command.n + 1
    BY <1>k, <2>1, Counts
  <2>3. files' \in [Part -> 0 .. MaxVersion]
    BY <1>k, <2>1, PartsLen, Bounds
  <2>4. PlatformTypeOK'
    BY <2>1, <2>2, <2>3 DEF Inv, PlatformTypeOK
  <2>5. \A i \in 1 .. command'.n : files'[Parts[i]] = version
    <3> SUFFICES ASSUME NEW i \in 1 .. command.n + 1 PROVE files'[Parts[i]] = version
      BY <2>2
    <3>1. Parts[i] \in Part
      BY <2>1, PartsLen
    <3>2. CASE i = command.n + 1
      BY <1>k, <2>1, <3>1, <3>2
    <3>3. CASE i # command.n + 1
      <4>1. i \in 1 .. command.n
        BY <1>k, <3>3
      <4>. QED
        BY <1>k, <2>1, <3>1, <4>1
    <3>. QED
      BY <3>2, <3>3
  <2>6. StampVouches'
    BY <1>k, <2>1, <2>2, <2>5, PartsLen DEF StampVouches
  <2>7. CleanEmpties' /\ ApiCounts'
    BY <2>2 DEF CleanEmpties, Inv, ApiCounts
  <2>. QED
    BY <2>4, <2>6, <2>7 DEF Inv
<1>2. CASE WriteStamp
  <2>1. command.n = 3 /\ stamp' = version /\ UNCHANGED files /\ GoTo(WithFiles[command.kind])
    BY <1>2, PartsLen DEF WriteStamp
  <2>2. command' \in CommandType /\ command'.at \notin {"copy", "volumes"}
    BY <1>k, <2>1, Stages, Going
  <2>3. PlatformTypeOK'
    BY <1>k, <2>1, <2>2 DEF Inv, PlatformTypeOK
  <2>4. \A p \in Part : files[p] = version
    <3>1. files[Parts[1]] = version /\ files[Parts[2]] = version /\ files[Parts[3]] = version
      BY <1>k, <2>1
    <3>. QED
      BY <3>1, PartsLen
  <2>5. StampVouches'
    BY <1>k, <2>1, <2>2, <2>4 DEF StampVouches
  <2>6. CleanEmpties' /\ ApiCounts'
    BY <2>2 DEF CleanEmpties, Inv, ApiCounts
  <2>. QED
    BY <2>3, <2>5, <2>6 DEF Inv
<1>. QED
  BY <1>1, <1>2 DEF Extract

(* Copying fails: the stamp still vouches for nothing, and a command that  *)
(* goes on without the files is not one that starts Compose.               *)
LEMMA ExtractFailsInv ==
  ASSUME Inv, ExtractFails, UNCHANGED <<host, version>> PROVE Inv'
<1>. UNCHANGED <<stamp, containers, data, commands>> /\ Failing
  BY DEF ExtractFails
<1>. UNCHANGED <<db, orchestrator, api, tables, templates>>
  BY DEF containers, data
<1>k. /\ command.at = "copy" /\ command.kind \in Kind /\ command \in CommandType
      /\ files \in [Part -> 0 .. MaxVersion] /\ stamp # version
  BY DEF ExtractFails, At, Inv, PlatformTypeOK, StampVouches
<1>1. files' \in [Part -> 0 .. MaxVersion]
  BY <1>k, Bounds DEF ExtractFails
<1>2. /\ command' \in CommandType /\ answer' \in Answer
      /\ command'.at \notin {"copy", "up", "pull", "volumes"}
      /\ command'.at = "down" => command'.clean = FALSE
  <2>1. CASE Return("failed")
    BY <2>1, Returns DEF Answer
  <2>2. CASE command.kind \in {"stop", "cleanup"} /\ GoOnTo(WithFiles[command.kind]) /\ UNCHANGED answer
    <3>1. /\ WithFiles[command.kind] \in CommandStage
          /\ WithFiles[command.kind] \notin {"copy", "up", "pull", "volumes"}
      BY <1>k, <2>2, Stages
    <3>2. /\ command' \in CommandType /\ command'.at = WithFiles[command.kind]
          /\ command'.clean = FALSE
      BY <1>k, <2>2, <3>1, GoesOnTo DEF GoOnTo
    <3>. QED
      BY <2>2, <3>1, <3>2 DEF Inv, PlatformTypeOK
  <2>. QED
    BY <1>k, <2>1, <2>2 DEF ExtractFails, Kind
<1>3. PlatformTypeOK'
  BY <1>1, <1>2, Fails DEF Inv, PlatformTypeOK
<1>4. StampVouches'
  BY <1>k, <1>2 DEF Inv, StampVouches
<1>5. CleanEmpties' /\ ApiCounts'
  BY <1>2 DEF CleanEmpties, Inv, ApiCounts
<1>. QED
  BY <1>3, <1>4, <1>5 DEF Inv

(* The commands that only wait, or end.                                    *)
LEMMA PullInv == ASSUME Inv, Pull, UNCHANGED <<host, version>> PROVE Inv'
<1>1. \E text \in Answer : Return(text)
  BY DEF Pull, Answer
<1>2. command' \in CommandType /\ command'.at = "none" /\ answer' \in Answer
  BY <1>1, Returns
<1>. QED
  BY <1>2, CommandMoves DEF Pull

LEMMA WaitInv ==
  ASSUME Inv, WaitForMetadata \/ WaitForOrchestrator \/ WaitForAPI \/ WaitForOpenClaw,
         UNCHANGED <<host, version>>
  PROVE  Inv'
<1>. UNCHANGED <<extracted, containers, data, commands>> /\ Working
  BY DEF WaitForMetadata, WaitForOrchestrator, WaitForAPI, WaitForOpenClaw
<1>k. answer \in Answer /\ command \in CommandType
  BY DEF Inv, PlatformTypeOK
<1>1. CASE Return("failed") \/ Return("ready")
  <2>1. command' \in CommandType /\ command'.at = "none" /\ answer' \in Answer
    BY <1>1, Returns DEF Answer
  <2>. QED
    BY <2>1, CommandMoves
<1>2. CASE (GoTo("orchestrator") \/ GoTo("gateway")) /\ UNCHANGED answer
  <2>1. command' \in CommandType /\ command'.at \in {"orchestrator", "gateway"}
    BY <1>2, Going DEF CommandStage
  <2>. QED
    BY <1>2, <1>k, <2>1, CommandMoves
<1>3. CASE /\ command' = [command EXCEPT !.at = "tables", !.n = 0,
                            !.raced = ScriptReachesDb /\ Booting]
           /\ UNCHANGED answer
  <2>1. PICK r \in BOOLEAN : command' = [command EXCEPT !.at = "tables", !.n = 0, !.raced = r]
    BY <1>3
  <2>2. "tables" \in CommandStage
    BY DEF CommandStage
  <2>3. command' \in CommandType /\ command'.at = "tables"
    <3>1. [command EXCEPT !.at = "tables", !.n = 0, !.raced = r] \in CommandType
      BY <1>k, <2>2 DEF CommandType
    <3>2. [command EXCEPT !.at = "tables", !.n = 0, !.raced = r].at = "tables"
      BY <1>k DEF CommandType
    <3>. QED
      BY <2>1, <3>1, <3>2
  <2>. QED
    BY <1>3, <1>k, <2>3, CommandMoves
<1>. QED
  BY <1>1, <1>2, <1>3 DEF WaitForMetadata, WaitForOrchestrator, WaitForAPI, WaitForOpenClaw

LEMMA ComposeUpInv ==
  ASSUME Inv, ComposeUp \/ ComposeUpFails, UNCHANGED <<host, version>> PROVE Inv'
<1>. UNCHANGED <<extracted, data, commands, tables, templates>>
  BY DEF ComposeUp, ComposeUpFails, data
<1>k. /\ api \in ApiType /\ db \in {"none", "starts", "ready"}
      /\ orchestrator \in {"none", "starts", "healthy"} /\ ApiCounts /\ answer \in Answer
      /\ tables \subseteq Tables /\ templates \in BOOLEAN
  BY DEF Inv, PlatformTypeOK
<1>1. db' \in {db, "starts"} /\ orchestrator' \in {orchestrator, "starts"} /\ api' \in {api, Boot}
  BY DEF ComposeUp, ComposeUpFails, CreatedDb, CreatedOrchestrator, CreatedApi
<1>2. /\ db' \in {"none", "starts", "ready"} /\ orchestrator' \in {"none", "starts", "healthy"}
      /\ api' \in ApiType /\ ApiCounts'
  BY <1>k, <1>1, Values, TableNames DEF ApiCounts
<1>3. /\ command' \in CommandType /\ command'.at \in {"none", "orchestrator", "metadata"}
      /\ answer' \in Answer
  <2>1. CASE ComposeUp
    <3>1. UNCHANGED answer /\ (GoTo("orchestrator") \/ GoTo("metadata"))
      BY <2>1 DEF ComposeUp
    <3>. QED
      BY <1>k, <3>1, Going DEF CommandStage
  <2>2. CASE ComposeUpFails
    BY <2>2, Returns DEF ComposeUpFails, Answer
  <2>. QED
    BY <2>1, <2>2
<1>4. CleanEmpties'
  BY <1>3 DEF CleanEmpties
<1>5. Working \/ Failing
  BY DEF ComposeUp, ComposeUpFails
<1>. QED
  BY <1>k, <1>2, <1>3, <1>4, <1>5, CommandKeeps

(* Whatever statement the script is at, it is about a table of ClawSQL.    *)
LEMMA CreateTablesInv ==
  ASSUME Inv, CreateTables, UNCHANGED <<host, version>> PROVE Inv'
<1>. UNCHANGED <<answer, extracted, containers, templates, commands>> /\ Working
  BY DEF CreateTables
<1>. UNCHANGED <<db, orchestrator, api>>
  BY DEF containers
<1>k. /\ api \in ApiType /\ db \in {"none", "starts", "ready"}
      /\ orchestrator \in {"none", "starts", "healthy"} /\ ApiCounts /\ answer \in Answer
      /\ tables \subseteq Tables /\ templates \in BOOLEAN
      /\ command \in CommandType /\ command.n \in Nat /\ command.at = "tables"
  BY DEF Inv, PlatformTypeOK, CommandType, CreateTables, At
<1>1. \/ GoTo("api") /\ UNCHANGED tables
      \/ /\ command.n + 1 <= 2 * Drops /\ tables' = Statement(command.n + 1)
         /\ command' = [command EXCEPT !.n = command.n + 1]
  BY <1>k, TableNames DEF CreateTables
<1>2. /\ command' \in CommandType /\ command'.at \in {"api", "tables"} /\ tables' \subseteq Tables
  <2>1. CASE GoTo("api") /\ UNCHANGED tables
    BY <1>k, <2>1, Going DEF CommandStage
  <2>2. CASE /\ command.n + 1 <= 2 * Drops /\ tables' = Statement(command.n + 1)
             /\ command' = [command EXCEPT !.n = command.n + 1]
    <3>1. command' \in CommandType /\ command'.at = "tables"
      BY <1>k, <2>2, Counts
    <3>2. command.n + 1 > Drops => StartOrder[command.n + 1 - Drops] \in Tables
      <4>1. command.n \in {0, 1, 2, 3, 4, 5} /\ Drops = 3
        BY <1>k, <2>2, TableNames
      <4>. QED
        BY <4>1, TableNames
    <3>3. tables' \subseteq Tables
      BY <1>k, <2>2, <3>2, TableNames DEF Statement
    <3>. QED
      BY <3>1, <3>3
  <2>. QED
    BY <1>1, <2>1, <2>2
<1>3. CleanEmpties' /\ ApiCounts'
  BY <1>2, <1>k DEF CleanEmpties, ApiCounts
<1>. QED
  BY <1>k, <1>2, <1>3, CommandKeeps

LEMMA ComposeDownInv ==
  ASSUME Inv, ComposeDown \/ ComposeDownFails, UNCHANGED <<host, version>> PROVE Inv'
<1>. UNCHANGED <<extracted, data, commands, db, tables, templates>>
  BY DEF ComposeDown, ComposeDownFails, data
<1>k. /\ api \in ApiType /\ db \in {"none", "starts", "ready"}
      /\ orchestrator \in {"none", "starts", "healthy"} /\ ApiCounts
      /\ tables \subseteq Tables /\ templates \in BOOLEAN
  BY DEF Inv, PlatformTypeOK
<1>1. orchestrator' \in {orchestrator, "none"} /\ api' \in {api, NoApi}
  BY DEF ComposeDown, ComposeDownFails
<1>2. orchestrator' \in {"none", "starts", "healthy"} /\ api' \in ApiType /\ ApiCounts'
  BY <1>k, <1>1, Values, TableNames DEF ApiCounts
<1>3. \E text \in {"stopped", "failed"} : Return(text)
  BY DEF ComposeDown, ComposeDownFails
<1>4. command' \in CommandType /\ command'.at = "none" /\ answer' \in Answer
  BY <1>3, Returns DEF Answer
<1>5. CleanEmpties'
  BY <1>4 DEF CleanEmpties
<1>6. Working \/ Failing
  BY DEF ComposeDown, ComposeDownFails
<1>. QED
  BY <1>k, <1>2, <1>4, <1>5, <1>6, CommandKeeps

(* /cleanup comes to the volumes with every container removed, or with     *)
(* what it knows of a failure.                                             *)
LEMMA StopContainersInv ==
  ASSUME Inv, StopContainers \/ StopContainersFails, UNCHANGED <<host, version>> PROVE Inv'
<1>. UNCHANGED <<answer, extracted, data, commands, tables, templates>>
  BY DEF StopContainers, StopContainersFails, data
<1>k. /\ api \in ApiType /\ db \in {"none", "starts", "ready"}
      /\ orchestrator \in {"none", "starts", "healthy"} /\ ApiCounts /\ answer \in Answer
      /\ tables \subseteq Tables /\ templates \in BOOLEAN /\ command \in CommandType
  BY DEF Inv, PlatformTypeOK
<1>1. db' \in {db, "none"} /\ orchestrator' \in {orchestrator, "none"} /\ api' \in {api, NoApi}
  BY DEF StopContainers, StopContainersFails
<1>2. /\ db' \in {"none", "starts", "ready"} /\ orchestrator' \in {"none", "starts", "healthy"}
      /\ api' \in ApiType /\ ApiCounts'
  BY <1>k, <1>1, Values, TableNames DEF ApiCounts
<1>3. "volumes" \in CommandStage
  BY DEF CommandStage
<1>4. command' \in CommandType /\ command'.at = "volumes" /\ CleanEmpties'
  <2>1. CASE StopContainers
    BY <2>1, <1>3, Going DEF StopContainers, CleanEmpties, Emptied
  <2>2. CASE StopContainersFails
    <3>1. command' \in CommandType /\ command'.at = "volumes" /\ command'.clean = FALSE
      BY <2>2, <1>k, <1>3, GoesOnTo DEF StopContainersFails, GoOnTo
    <3>. QED
      BY <3>1 DEF CleanEmpties
  <2>. QED
    BY <2>1, <2>2
<1>5. Working \/ Failing
  BY DEF StopContainers, StopContainersFails
<1>. QED
  BY <1>k, <1>2, <1>4, <1>5, CommandKeeps

LEMMA RemoveVolumesInv ==
  ASSUME Inv, RemoveVolumes \/ RemoveVolumesFails, UNCHANGED <<host, version>> PROVE Inv'
<1>. UNCHANGED <<extracted, containers, commands, db, orchestrator, api>>
  BY DEF RemoveVolumes, RemoveVolumesFails, containers
<1>k. /\ api \in ApiType /\ db \in {"none", "starts", "ready"}
      /\ orchestrator \in {"none", "starts", "healthy"} /\ ApiCounts
      /\ tables \subseteq Tables /\ templates \in BOOLEAN
  BY DEF Inv, PlatformTypeOK
<1>1. tables' \subseteq Tables /\ templates' \in BOOLEAN
  BY <1>k DEF RemoveVolumes, RemoveVolumesFails, data
<1>2. \E text \in {"cleaned", "partly cleaned"} : Return(text)
  BY DEF RemoveVolumes, RemoveVolumesFails
<1>3. command' \in CommandType /\ command'.at = "none" /\ answer' \in Answer
  BY <1>2, Returns DEF Answer
<1>4. CleanEmpties' /\ ApiCounts'
  BY <1>k, <1>3 DEF CleanEmpties, ApiCounts
<1>5. Working \/ Failing
  BY DEF RemoveVolumes, RemoveVolumesFails
<1>. QED
  BY <1>k, <1>1, <1>3, <1>4, <1>5, CommandKeeps

LEMMA RestInv ==
  ASSUME Inv, Kill \/ Upgrade \/ UNCHANGED vars, host' = host PROVE Inv'
<1>1. CASE Kill
  <2>1. command' \in CommandType /\ command'.at = "none" /\ answer' \in Answer
    BY <1>1, Returns DEF Kill, Answer
  <2>. QED
    BY <1>1, <2>1, CommandMoves DEF Kill, Working
<1>2. CASE Upgrade
  <2>1. /\ UNCHANGED <<command, answer, files, stamp, db, orchestrator, api, tables, templates,
                       commands, failures>>
        /\ command = Idle /\ version < MaxVersion /\ version' = version + 1
    BY <1>2 DEF Upgrade, extracted, containers, data
  <2>2. PlatformTypeOK'
    BY <2>1, Bounds DEF Inv, PlatformTypeOK
  <2>3. StampVouches'
    BY <2>1, Values, Bounds DEF Inv, StampVouches, PlatformTypeOK
  <2>4. CleanEmpties' /\ ApiCounts'
    BY <2>1 DEF Inv, CleanEmpties, Emptied, ApiCounts
  <2>. QED
    BY <2>2, <2>3, <2>4 DEF Inv
<1>3. CASE UNCHANGED vars
  <2>1. UNCHANGED <<version, command, answer, files, stamp, db, orchestrator, api, tables,
                    templates, commands, failures>>
    BY <1>3 DEF vars, extracted, containers, data
  <2>. QED
    BY <2>1 DEF Inv, PlatformTypeOK, StampVouches, CleanEmpties, Emptied, ApiCounts
<1>. QED
  BY <1>1, <1>2, <1>3

LEMMA NextInv == Inv /\ [Next]_vars => Inv'
<1> SUFFICES ASSUME Inv, [Next]_vars PROVE Inv'
  OBVIOUS
<1>0. host' = host
  BY DEF Next, vars
<1>1. CASE CommandStep
  <2>. version' = version
    BY <1>1 DEF CommandStep
  <2>1. CASE \E kind \in Kind : Begin(kind)
    BY <1>0, <2>1, BeginInv
  <2>2. CASE Confirm \/ Prerequisites \/ Extract \/ ExtractFails \/ Pull
    BY <1>0, <2>2, ConfirmInv, PrerequisitesInv, ExtractInv, ExtractFailsInv, PullInv
  <2>3. CASE \/ ComposeUp \/ ComposeUpFails \/ CreateTables
             \/ WaitForMetadata \/ WaitForOrchestrator \/ WaitForAPI \/ WaitForOpenClaw
    BY <1>0, <2>3, ComposeUpInv, CreateTablesInv, WaitInv
  <2>4. CASE \/ ComposeDown \/ ComposeDownFails
             \/ StopContainers \/ StopContainersFails \/ RemoveVolumes \/ RemoveVolumesFails
    BY <1>0, <2>4, ComposeDownInv, StopContainersInv, RemoveVolumesInv
  <2>. QED
    BY <1>1, <2>1, <2>2, <2>3, <2>4 DEF CommandStep
<1>2. CASE Container
  BY <1>0, <1>2, ContainerInv
<1>3. CASE Kill \/ Upgrade \/ UNCHANGED vars
  BY <1>0, <1>3, RestInv
<1>. QED
  BY <1>1, <1>2, <1>3 DEF Next

LEMMA AlwaysInv == Spec => []Inv
  BY InitInv, NextInv, PTL DEF Spec

(* However often commands are killed, fail or are run by another release,  *)
(* /install and /start, and a /stop during which nothing has failed, never *)
(* run Compose on a half-copied or mixed set of files (ensureDockerFiles   *)
(* and needsExtraction, docker-files.ts).                                  *)
THEOREM FilesAreWhole == Spec => []ComposeUsesWholeFiles
<1>1. Inv => ComposeUsesWholeFiles
  BY DEF Inv, StampVouches, ComposeUsesWholeFiles
<1>. QED
  BY <1>1, AlwaysInv, PTL

(* A command ends by saying so, and only the actions that have it to say   *)
(* say that the platform is cleaned or ready.                              *)
LEMMA Ending ==
  ASSUME Inv, Next, command # Idle, command' = Idle, answer' \in {"cleaned", "ready"}
  PROVE  IF answer' = "cleaned" THEN RemoveVolumes ELSE WaitForAPI \/ WaitForOpenClaw
<1>0. Idle.kind = "none" /\ Idle.at = "none" /\ command \in CommandType
  BY Values DEF Inv, PlatformTypeOK
<1>1. Idle.clean = TRUE /\ command \in CommandType
  BY <1>0 DEF Idle
<1>2. ASSUME NEW s \in CommandStage \ {"none"}, GoTo(s) PROVE FALSE
  BY <1>0, <1>2, Going
<1>3. ASSUME NEW s \in CommandStage, GoOnTo(s) PROVE FALSE
  BY <1>1, <1>3, GoesOnTo DEF GoOnTo
<1>4. ~Container
  <2>1. ASSUME Restarts PROVE FALSE
    <3>1. command' = [command EXCEPT !.clean = FALSE]
      BY <2>1 DEF Restarts
    <3>. QED
      BY <1>1, <3>1, Dirties
  <2>. QED
    BY <2>1 DEF Container, DbStarts, OrchestratorStarts, ApiConnects, ApiCreates,
                ApiFillsTemplates, ApiListens
<1>5. ~Kill /\ ~Upgrade /\ ~(\E kind \in Kind : Begin(kind))
  BY DEF Kill, Upgrade, Begin, Return
<1>6. \A k \in Kind : WithFiles[k] \in CommandStage \ {"none"}
  BY Stages
<1>7. ~Confirm /\ ~Prerequisites /\ ~Pull
  <2>1. {"prerequisites", "copy"} \subseteq CommandStage \ {"none"}
    BY DEF CommandStage
  <2>. QED
    BY <1>2, <1>6, <2>1 DEF Confirm, Prerequisites, Pull, Return, At
<1>8. ~Extract
  <2>1. ASSUME Extract, CopyPart PROVE FALSE
    <3>1. command.at = "copy" /\ command.n \in Nat
      BY <2>1, <1>1 DEF Extract, At, CommandType
    <3>2. command' = [command EXCEPT !.n = command.n + 1]
      BY <2>1 DEF CopyPart
    <3>. QED
      BY <1>0, <1>1, <3>1, <3>2, Counts
  <2>. QED
    BY <1>2, <1>6, <2>1 DEF Extract, WriteStamp, At
<1>9. ~ExtractFails
  BY <1>3, <1>6 DEF ExtractFails, Return, At
<1>10. ~ComposeUp /\ ~ComposeUpFails
  <2>1. {"orchestrator", "metadata"} \subseteq CommandStage \ {"none"}
    BY DEF CommandStage
  <2>. QED
    BY <1>2, <2>1 DEF ComposeUp, ComposeUpFails, Return
<1>11. ~WaitForMetadata /\ (WaitForAPI \/ WaitForOpenClaw => answer' = "ready")
  <2>1. {"orchestrator", "gateway"} \subseteq CommandStage \ {"none"}
    BY DEF CommandStage
  <2>. QED
    BY <1>2, <2>1 DEF WaitForMetadata, WaitForAPI, WaitForOpenClaw, Return
<1>12. ~WaitForOrchestrator
  <2>1. ASSUME NEW r \in BOOLEAN, command' = [command EXCEPT !.at = "tables", !.n = 0, !.raced = r]
        PROVE  FALSE
    BY <1>0, <2>1 DEF CommandType
  <2>. QED
    BY <2>1 DEF WaitForOrchestrator, Return
<1>13. ~CreateTables
  <2>1. ASSUME CreateTables, command' = [command EXCEPT !.n = command.n + 1] PROVE FALSE
    <3>1. command.at = "tables" /\ command.n \in Nat
      BY <2>1, <1>1 DEF CreateTables, At, CommandType
    <3>. QED
      BY <1>0, <2>1, <3>1, Counts
  <2>2. "api" \in CommandStage \ {"none"}
    BY DEF CommandStage
  <2>. QED
    BY <1>2, <2>1, <2>2 DEF CreateTables
<1>14. /\ ~ComposeDown /\ ~ComposeDownFails /\ ~RemoveVolumesFails
       /\ RemoveVolumes => answer' = "cleaned"
  BY DEF ComposeDown, ComposeDownFails, RemoveVolumes, RemoveVolumesFails, Return
<1>15. ~StopContainers /\ ~StopContainersFails
  <2>1. "volumes" \in CommandStage \ {"none"}
    BY DEF CommandStage
  <2>. QED
    BY <1>2, <1>3, <2>1 DEF StopContainers, StopContainersFails
<1>. QED
  BY <1>4, <1>5, <1>7, <1>8, <1>9, <1>10, <1>11, <1>12, <1>13, <1>14, <1>15
     DEF Next, CommandStep

(* "Cleanup complete!" of a command in which nothing failed: there is no   *)
(* container and, unless the database is the user's own, no volume left,   *)
(* whatever the commands before it have done (cleanup.ts).                 *)
THEOREM CleanupCompletes == Spec => CleanupIsComplete
<1>1. Inv /\ [Next]_vars
        => [(answer' = "cleaned" /\ command # Idle /\ command' = Idle /\ command.clean)
              => /\ db = "none" /\ orchestrator = "none" /\ api = NoApi
                 /\ ~host.external => tables' = {} /\ ~templates']_vars
  <2> SUFFICES ASSUME Inv, Next, answer' = "cleaned", command # Idle, command' = Idle, command.clean
               PROVE  /\ db = "none" /\ orchestrator = "none" /\ api = NoApi
                      /\ ~host.external => tables' = {} /\ ~templates'
    OBVIOUS
  <2>1. RemoveVolumes
    BY Ending
  <2>2. Emptied
    BY <2>1 DEF RemoveVolumes, At, Inv, CleanEmpties
  <2>. QED
    BY <2>1, <2>2 DEF RemoveVolumes, Emptied, data
<1>. QED
  BY <1>1, AlwaysInv, PTL DEF Spec, CleanupIsComplete

-------------------------------------------------------------------------------
(* That a platform called ready has its tables.  TablesInv follows the     *)
(* script of /start and the start of the API server statement by           *)
(* statement; as long as no program has failed, they meet only where       *)
(* `raced' says so.                                                        *)

(* A machine on which the script of /start reaches no database: it asks    *)
(* Podman for the platform's own container.                                *)
Scriptless == host.runtime = "docker" \/ host.external

(* What the script has done after n statements, when nobody else works on  *)
(* its tables.                                                             *)
ScriptAt(n) ==
  \A i \in 1 .. Drops : /\ i + Drops <= n => StartOrder[i] \in tables
                        /\ i <= n /\ n < i + Drops => StartOrder[i] \notin tables

(* What a server that found its database has created.  The table of the    *)
(* templates is no table of the script.                                    *)
ApiMade ==
  /\ \/ api.at = "creates" /\ api.n = Len(ApiOrder)
     \/ api.at = "templates"
     \/ api.persistent = TRUE
     => "topology_templates" \in tables
  /\ api.persistent = TRUE => templates = TRUE /\ api.at \in {"listens", "serves"}
  /\ Scriptless /\ api.at = "creates" => \A i \in 1 .. api.n : ApiOrder[i] \in tables
  /\ Scriptless /\ (api.at = "templates" \/ api.persistent = TRUE) => Tables \subseteq tables

(* The script runs against a database that answers, and, unless it met a   *)
(* server that was booting, alone.                                         *)
ScriptMade ==
  ~Scriptless =>
    /\ command.at = "tables" => db = "ready"
    /\ command.at = "tables" /\ command.raced = FALSE => ~Booting /\ ScriptAt(command.n)
    /\ command.at \in {"api", "gateway"} /\ command.raced = FALSE
         => ~Booting /\ ScriptAt(2 * Drops)

Unfailing ==
  /\ command.at # "none" => command.clean = TRUE
  /\ orchestrator = "healthy" => DbReachable
  /\ api.at \in {"creates", "templates"} => DbReachable

TablesInv ==
  /\ host.external => db = "none"
  /\ failures = 0 => Unfailing /\ ApiMade /\ ScriptMade

(* What the types of the state give every step below.                      *)
LEMMA Types ==
  ASSUME Inv
  PROVE  /\ host.runtime \in {"docker", "podman"} /\ host.external \in BOOLEAN
         /\ command \in CommandType /\ command.n \in Nat /\ command.raced \in BOOLEAN
         /\ api \in ApiType /\ api.n \in 0 .. 4 /\ api.persistent \in BOOLEAN
         /\ db \in {"none", "starts", "ready"} /\ orchestrator \in {"none", "starts", "healthy"}
         /\ tables \subseteq Tables /\ templates \in BOOLEAN /\ failures \in Nat
  BY PlatformAssumption, TableNames
     DEF Inv, PlatformTypeOK, ApiCounts, CommandType, ApiType, HostType

LEMMA TablesInit == Init => TablesInv
<1> SUFFICES ASSUME Init PROVE TablesInv
  OBVIOUS
<1>1. /\ db = "none" /\ orchestrator = "none" /\ api.at = "none" /\ api.n = 0
      /\ api.persistent = FALSE /\ command.at = "none"
  BY Values DEF Init
<1>. QED
  BY <1>1 DEF TablesInv, Unfailing, ApiMade, ScriptMade

(* A step in which something fails has nothing else to show.               *)
LEMMA FailingKeeps ==
  ASSUME Inv, Failing, host.external => db = "none", host' = host, db' \in {db, "none"}
         \/ (db # "none" /\ db' = "starts") \/ (db' = CreatedDb)
  PROVE  TablesInv'
<1>1. failures' # 0
  BY Types DEF Failing
<1>2. host'.external => db' = "none"
  BY DEF CreatedDb
<1>. QED
  BY <1>1, <1>2 DEF TablesInv

(* A command that leaves containers and database alone and comes to no     *)
(* step after the script's beginning.                                      *)
LEMMA CommandAway ==
  ASSUME Inv, TablesInv, UNCHANGED <<host, containers, data>>, Working,
         command'.at \notin {"tables", "api", "gateway"},
         command'.at # "none" => command'.clean = TRUE \/ (command.at # "none" /\ command'.clean = command.clean)
  PROVE  TablesInv'
<1>1. UNCHANGED <<host, db, orchestrator, api, tables, templates, failures>>
  BY DEF containers, data, Working
<1>2. Unfailing => Unfailing'
  BY <1>1 DEF Unfailing, DbReachable
<1>3. ApiMade => ApiMade'
  BY <1>1 DEF ApiMade, Scriptless
<1>4. ScriptMade'
  BY DEF ScriptMade
<1>. QED
  BY <1>1, <1>2, <1>3, <1>4 DEF TablesInv

(* How a command goes on.                                                  *)
LEMMA Goes ==
  ASSUME Inv, NEW s \in CommandStage, GoTo(s)
  PROVE  /\ command'.at = s /\ command'.n = 0
         /\ command'.clean = command.clean /\ command'.raced = command.raced
  BY GoesTo DEF Inv, PlatformTypeOK, GoTo

LEMMA ReturnTables ==
  ASSUME Inv, TablesInv, UNCHANGED <<host, containers, data>>, Working, NEW text, Return(text)
  PROVE  TablesInv'
<1>1. command'.at = "none"
  BY Values DEF Return
<1>. QED
  BY <1>1, CommandAway

LEMMA GoTables ==
  ASSUME Inv, TablesInv, UNCHANGED <<host, containers, data>>, Working,
         NEW s \in CommandStage \ {"tables", "api", "gateway"}, GoTo(s), command.at # "none"
  PROVE  TablesInv'
<1>1. command'.at = s /\ command'.clean = command.clean
  BY Goes
<1>. QED
  BY <1>1, CommandAway

LEMMA FilesTables ==
  ASSUME Inv, TablesInv, host' = host,
         (\E kind \in Kind : Begin(kind)) \/ Confirm \/ Prerequisites \/ Extract \/ ExtractFails \/ Pull
  PROVE  TablesInv'
<1>s. /\ "confirm" \in CommandStage /\ "prerequisites" \in CommandStage /\ "copy" \in CommandStage
      /\ \A k \in Kind : WithFiles[k] \in CommandStage \ {"tables", "api", "gateway"}
  BY DEF CommandStage, WithFiles, Kind
<1>1. CASE \E kind \in Kind : Begin(kind)
  <2>1. PICK kind \in Kind, s \in {"confirm", "prerequisites"} :
           command' = [Idle EXCEPT !.kind = kind, !.at = s]
    BY <1>1 DEF Begin
  <2>2. s \in CommandStage /\ s \in {"confirm", "prerequisites"}
    BY <1>s
  <2>3. command'.at = s /\ command'.clean = TRUE
    BY <2>1, <2>2, Begins
  <2>. QED
    BY <1>1, <2>2, <2>3, CommandAway DEF Begin
<1>2. CASE Confirm
  BY <1>2, <1>s, GoTables, ReturnTables DEF Confirm, At
<1>3. CASE Prerequisites
  <2>1. command.kind \in Kind /\ command.at # "none" /\ UNCHANGED <<containers, data>> /\ Working
    BY <1>3 DEF Prerequisites, At
  <2>2. CASE Return("failed")
    BY <2>1, <2>2, ReturnTables
  <2>3. CASE GoTo("copy") \/ GoTo(WithFiles[command.kind])
    BY <2>1, <2>3, <1>s, GoTables
  <2>. QED
    BY <1>3, <2>2, <2>3 DEF Prerequisites
<1>4. CASE Extract
  <2>1. /\ command.kind \in Kind /\ command.at = "copy" /\ UNCHANGED <<containers, data>> /\ Working
    BY <1>4 DEF Extract, At
  <2>2. CASE GoTo(WithFiles[command.kind])
    BY <2>1, <2>2, <1>s, GoTables
  <2>3. CASE command' = [command EXCEPT !.n = @ + 1]
    <3>1. command'.at = "copy" /\ command'.clean = command.clean
      BY <2>1, <2>3, Types, Counts
    <3>. QED
      BY <2>1, <3>1, CommandAway
  <2>. QED
    BY <1>4, <2>2, <2>3 DEF Extract, CopyPart, WriteStamp
<1>5. CASE ExtractFails
  <2>1. Failing /\ db' = db
    BY <1>5 DEF ExtractFails, containers
  <2>. QED
    BY <2>1, FailingKeeps DEF TablesInv
<1>6. CASE Pull
  <2>1. UNCHANGED <<containers, data>> /\ db' = db
    BY <1>6 DEF Pull, containers
  <2>. QED
    BY <1>6, <2>1, ReturnTables, FailingKeeps DEF Pull, TablesInv
<1>. QED
  BY <1>1, <1>2, <1>3, <1>4, <1>5, <1>6

(* A container that Compose creates has done nothing yet.                  *)
LEMMA ComposeUpTables ==
  ASSUME Inv, TablesInv, host' = host, ComposeUp \/ ComposeUpFails PROVE TablesInv'
<1>1. CASE ComposeUp
  <2>1. /\ command.at = "up" /\ UNCHANGED <<tables, templates, failures>>
        /\ db' = CreatedDb /\ orchestrator' = CreatedOrchestrator /\ api' = CreatedApi
        /\ GoTo("orchestrator") \/ GoTo("metadata")
    BY <1>1 DEF ComposeUp, At, data, Working
  <2>2. /\ command'.at \in {"orchestrator", "metadata"} /\ command'.clean = command.clean
    BY <2>1, Goes DEF CommandStage
  <2>3. host'.external => db' = "none"
    BY <2>1 DEF TablesInv, CreatedDb
  <2>4. DbReachable => DbReachable'
    BY <2>1, Types DEF DbReachable, CreatedDb
  <2>5. api' = api \/ (api'.at = "connects" /\ api'.persistent = FALSE)
    BY <2>1, Values DEF CreatedApi
  <2>6. orchestrator' = "healthy" => orchestrator = "healthy"
    BY <2>1 DEF CreatedOrchestrator
  <2>7. Unfailing => Unfailing'
    BY <2>1, <2>2, <2>4, <2>5, <2>6 DEF Unfailing
  <2>8. ApiMade => ApiMade'
    BY <2>1, <2>5 DEF ApiMade, Scriptless
  <2>9. ScriptMade'
    BY <2>2 DEF ScriptMade
  <2>. QED
    BY <2>1, <2>3, <2>7, <2>8, <2>9 DEF TablesInv
<1>2. CASE ComposeUpFails
  <2>1. Failing /\ db' \in {db, CreatedDb}
    BY <1>2 DEF ComposeUpFails
  <2>. QED
    BY <2>1, FailingKeeps DEF TablesInv
<1>. QED
  BY <1>1, <1>2

(* The script begins where the server is not about to create tables, or it *)
(* is marked.                                                              *)
LEMMA WaitTables ==
  ASSUME Inv, TablesInv, host' = host,
         WaitForMetadata \/ WaitForOrchestrator \/ WaitForAPI \/ WaitForOpenClaw
  PROVE  TablesInv'
<1>. /\ UNCHANGED <<containers, data>> /\ Working
     /\ UNCHANGED <<db, orchestrator, api, tables, templates, failures>>
  BY DEF WaitForMetadata, WaitForOrchestrator, WaitForAPI, WaitForOpenClaw, containers, data, Working
<1>1. CASE WaitForMetadata
  BY <1>1, GoTables DEF WaitForMetadata, At, CommandStage
<1>2. CASE \E text : Return(text)
  BY <1>2, ReturnTables
<1>3. CASE WaitForOrchestrator /\ orchestrator = "healthy"
           /\ command' = [command EXCEPT !.at = "tables", !.n = 0, !.raced = ScriptReachesDb /\ Booting]
  <2>1. command.at = "orchestrator"
    BY <1>3 DEF WaitForOrchestrator, At
  <2>2. /\ command'.at = "tables" /\ command'.n = 0 /\ command'.clean = command.clean
        /\ command'.raced = (ScriptReachesDb /\ Booting)
    BY <1>3, Types DEF CommandType
  <2>3. ASSUME failures = 0 PROVE Unfailing' /\ ApiMade'
    BY <2>1, <2>2, <2>3 DEF TablesInv, Unfailing, ApiMade, Scriptless, DbReachable
  <2>4. ASSUME failures = 0 PROVE ScriptMade'
    <3> SUFFICES ASSUME ~Scriptless PROVE db = "ready" /\ (command'.raced = FALSE => ~Booting /\ ScriptAt(0))
      BY <2>2 DEF ScriptMade, Scriptless, ScriptAt, Booting
    <3>1. db = "ready" /\ host.runtime = "podman"
      BY <1>3, <2>4, Types DEF TablesInv, Unfailing, DbReachable, Scriptless
    <3>2. ScriptAt(0)
      BY TableNames DEF ScriptAt
    <3>. QED
      BY <2>2, <3>1, <3>2 DEF ScriptReachesDb, MetadataAnswers
  <2>. QED
    BY <2>3, <2>4 DEF TablesInv
<1>4. CASE WaitForAPI /\ GoTo("gateway")
  <2>1. command.at = "api"
    BY <1>4 DEF WaitForAPI, At
  <2>2. command'.at = "gateway" /\ command'.clean = command.clean /\ command'.raced = command.raced
    BY <1>4, Goes DEF CommandStage
  <2>3. ASSUME failures = 0 PROVE Unfailing' /\ ApiMade'
    BY <2>1, <2>2, <2>3 DEF TablesInv, Unfailing, ApiMade, Scriptless, DbReachable
  <2>4. ASSUME failures = 0 PROVE ScriptMade'
    BY <2>1, <2>2, <2>4 DEF TablesInv, ScriptMade, Scriptless, ScriptAt, Booting
  <2>. QED
    BY <2>3, <2>4 DEF TablesInv
<1>. QED
  BY <1>1, <1>2, <1>3, <1>4 DEF WaitForOrchestrator, WaitForAPI, WaitForOpenClaw

LEMMA CreateTablesTables ==
  ASSUME Inv, TablesInv, host' = host, CreateTables PROVE TablesInv'
<1>. /\ UNCHANGED <<db, orchestrator, api, templates, failures>>
     /\ command.at = "tables"
  BY DEF CreateTables, containers, Working, At
<1> DEFINE n == command.n + 1
<1>t. n \in Nat /\ n > 0 /\ n = command.n + 1 /\ command.n \in Nat /\ Drops = 3
  BY Types, TableNames
<1>h. HIDE DEF n
<1>1. \/ /\ n > 2 * Drops \/ ~ScriptReachesDb \/ StatementFails(n)
         /\ GoTo("api") /\ UNCHANGED tables
      \/ /\ n <= 2 * Drops /\ ScriptReachesDb /\ ~StatementFails(n)
         /\ tables' = Statement(n) /\ command' = [command EXCEPT !.n = n]
  BY <1>t DEF CreateTables, n
<1>2. /\ command'.at \in {"api", "tables"} /\ command'.clean = command.clean
      /\ command'.raced = command.raced
      /\ command'.at = "api" => /\ n > 2 * Drops \/ ~ScriptReachesDb \/ StatementFails(n)
                                /\ UNCHANGED tables
      /\ command'.at = "tables" => command'.n = n /\ n <= 2 * Drops /\ ScriptReachesDb /\ tables' = Statement(n)
  <2>1. "api" \in CommandStage
    BY DEF CommandStage
  <2>2. CASE /\ n > 2 * Drops \/ ~ScriptReachesDb \/ StatementFails(n)
             /\ GoTo("api") /\ UNCHANGED tables
    <3>1. command'.at = "api" /\ command'.clean = command.clean /\ command'.raced = command.raced
      BY <2>1, <2>2, Goes
    <3>. QED
      BY <2>2, <3>1
  <2>3. CASE /\ n <= 2 * Drops /\ ScriptReachesDb /\ ~StatementFails(n)
             /\ tables' = Statement(n) /\ command' = [command EXCEPT !.n = n]
    <3>1. /\ command'.at = "tables" /\ command'.clean = command.clean
          /\ command'.raced = command.raced /\ command'.n = n
      BY <2>3, <1>t, Counts, Types
    <3>. QED
      BY <2>3, <3>1
  <2>. QED
    BY <1>1, <2>2, <2>3
<1>3. host'.external => db' = "none"
  BY DEF TablesInv
<1> SUFFICES ASSUME failures = 0 PROVE Unfailing' /\ ApiMade' /\ ScriptMade'
  BY <1>3 DEF TablesInv
<1>k. Unfailing /\ ApiMade /\ ScriptMade
  BY DEF TablesInv
<1>4. Unfailing'
  BY <1>2, <1>k DEF Unfailing, DbReachable
<1>5. Scriptless => ~ScriptReachesDb
  BY DEF Scriptless, ScriptReachesDb, MetadataAnswers, TablesInv
<1>6. "topology_templates" \in tables => "topology_templates" \in tables'
  <2>1. tables' = tables \/ (n <= 6 /\ tables' = Statement(n))
    BY <1>2, <1>t
  <2>2. n <= 3 => n \in {1, 2, 3}
    BY <1>t
  <2>. QED
    BY <2>1, <2>2, <1>t, TableNames DEF Statement
<1>7. ApiMade'
  BY <1>2, <1>5, <1>6, <1>k DEF ApiMade, Scriptless
<1>8. ScriptMade'
  <2> SUFFICES ASSUME ~Scriptless PROVE ScriptMade'
    BY DEF ScriptMade, Scriptless
  <2>1. /\ db = "ready" /\ ScriptReachesDb
        /\ command.raced = FALSE => ~Booting /\ ScriptAt(command.n)
    BY <1>k, Types DEF ScriptMade, Scriptless, ScriptReachesDb, MetadataAnswers
  <2>2. ASSUME command'.at = "tables", command.raced = FALSE PROVE ScriptAt(command.n)'
    <3>1. n \in {1, 2, 3, 4, 5, 6} /\ tables' = Statement(n) /\ command'.n = n
      BY <1>2, <1>t, <2>2
    <3>2. \A i \in {1, 2, 3} : /\ i + 3 < n => StartOrder[i] \in tables
                               /\ i < n /\ n <= i + 3 => StartOrder[i] \notin tables
      BY <1>t, <2>1, <2>2 DEF ScriptAt
    <3>3. \A i \in {1, 2, 3} : /\ i + 3 <= n => StartOrder[i] \in tables'
                               /\ i <= n /\ n < i + 3 => StartOrder[i] \notin tables'
      <4>1. CASE n \in {1, 2, 3}
        <5>1. tables' = tables \ {StartOrder[n]}
          BY <1>t, <3>1, <4>1 DEF Statement
        <5>. QED
          BY <3>2, <4>1, <5>1
      <4>2. CASE n \in {4, 5, 6}
        <5>1. tables' = tables \cup {StartOrder[n - 3]} /\ n - 3 \in {1, 2, 3}
          BY <1>t, <3>1, <4>2 DEF Statement
        <5>2. \A i, j \in {1, 2, 3} : StartOrder[i] = StartOrder[j] => i = j
          BY TableNames
        <5>. QED
          BY <3>2, <4>2, <5>1, <5>2
      <4>. QED
        BY <3>1, <4>1, <4>2
    <3>. QED
      BY <1>t, <3>1, <3>3 DEF ScriptAt
  <2>3. ASSUME command'.at = "api", command.raced = FALSE PROVE ScriptAt(2 * Drops)'
    <3>1. \A i \in {1, 2, 3} : /\ i + 3 < n => StartOrder[i] \in tables
                               /\ i < n /\ n <= i + 3 => StartOrder[i] \notin tables
      BY <1>t, <2>1, <2>3 DEF ScriptAt
    <3>2. n > 6
      <4>1. ASSUME StatementFails(n), n <= 6 PROVE FALSE
        <5>1. n \in {4, 5, 6} /\ StartOrder[n - 3] \in tables
          BY <1>t, <4>1 DEF StatementFails
        <5>2. CASE n = 4
          BY <5>1, <5>2, <3>1
        <5>3. CASE n = 5
          BY <5>1, <5>3, <3>1
        <5>4. CASE n = 6
          BY <5>1, <5>4, <3>1
        <5>. QED
          BY <5>1, <5>2, <5>3, <5>4
      <4>. QED
        BY <1>2, <1>t, <2>1, <2>3, <4>1
    <3>3. \A i \in {1, 2, 3} : StartOrder[i] \in tables /\ tables' = tables
      BY <1>2, <1>t, <2>3, <3>1, <3>2
    <3>. QED
      BY <1>t, <3>3 DEF ScriptAt
  <2>. QED
    BY <1>2, <1>t, <2>1, <2>2, <2>3 DEF ScriptMade, Booting
<1>. QED
  BY <1>4, <1>7, <1>8

LEMMA DownTables ==
  ASSUME Inv, TablesInv, host' = host,
         ComposeDown \/ ComposeDownFails \/ StopContainers \/ StopContainersFails
  PROVE  TablesInv'
<1>1. CASE ComposeDownFails \/ StopContainersFails
  <2>1. Failing /\ db' \in {db, "none"}
    BY <1>1 DEF ComposeDownFails, StopContainersFails
  <2>. QED
    BY <2>1, FailingKeeps DEF TablesInv
<1>2. CASE ComposeDown \/ StopContainers
  <2>1. /\ UNCHANGED <<tables, templates, failures>>
        /\ \/ db' = db /\ UNCHANGED <<orchestrator, api>>
           \/ db' \in {db, "none"} /\ orchestrator' = "none" /\ api' = NoApi
    BY <1>2 DEF ComposeDown, StopContainers, data, Working
  <2>2. command'.at \in {"none", "volumes"} /\ (command'.at # "none" => command.at # "none" /\ command'.clean = command.clean)
    <3>1. CASE ComposeDown
      BY <3>1, Values DEF ComposeDown, Return
    <3>2. CASE StopContainers
      BY <3>2, Goes DEF StopContainers, CommandStage, At
    <3>. QED
      BY <1>2, <3>1, <3>2
  <2>3. host'.external => db' = "none"
    BY <2>1 DEF TablesInv
  <2>4. Unfailing => Unfailing'
    BY <2>1, <2>2, Values DEF Unfailing, DbReachable
  <2>5. ApiMade => ApiMade'
    BY <2>1, Values DEF ApiMade, Scriptless
  <2>6. ScriptMade'
    BY <2>2 DEF ScriptMade
  <2>. QED
    BY <2>1, <2>3, <2>4, <2>5, <2>6 DEF TablesInv
<1>. QED
  BY <1>1, <1>2

(* When the volumes go, no server is left that would believe in its tables. *)
LEMMA VolumesTables ==
  ASSUME Inv, TablesInv, host' = host, RemoveVolumes \/ RemoveVolumesFails PROVE TablesInv'
<1>1. CASE RemoveVolumesFails
  <2>1. Failing /\ db' = db
    BY <1>1 DEF RemoveVolumesFails, containers
  <2>. QED
    BY <2>1, FailingKeeps DEF TablesInv
<1>2. CASE RemoveVolumes
  <2>1. /\ command.kind = "cleanup" /\ command.at = "volumes" /\ command'.at = "none"
        /\ UNCHANGED <<db, orchestrator, api, failures>>
    BY <1>2, Values DEF RemoveVolumes, At, Return, containers, Working
  <2>2. host'.external => db' = "none"
    BY <2>1 DEF TablesInv
  <2>3. ASSUME failures = 0 PROVE Unfailing' /\ ApiMade'
    <3>1. command.clean = TRUE
      BY <2>1, <2>3 DEF TablesInv, Unfailing
    <3>2. orchestrator = "none" /\ api = NoApi
      BY <2>1, <3>1 DEF Inv, CleanEmpties, Emptied
    <3>. QED
      BY <2>1, <3>2, Values DEF Unfailing, ApiMade
  <2>4. ScriptMade'
    BY <2>1 DEF ScriptMade
  <2>. QED
    BY <2>1, <2>2, <2>3, <2>4 DEF TablesInv
<1>. QED
  BY <1>1, <1>2

-------------------------------------------------------------------------------
(* The containers.                                                         *)

(* A container that does not touch the tables while the script has them.   *)
LEMMA ContainerTables ==
  ASSUME Inv, TablesInv, UNCHANGED <<host, command, failures>>,
         host'.external => db' = "none", failures = 0 => ApiMade',
         failures = 0 => (orchestrator' = "healthy" => DbReachable'),
         failures = 0 => (api'.at \in {"creates", "templates"} => DbReachable'),
         db = "ready" => db' = "ready", Booting' => Booting, Booting \/ UNCHANGED tables
  PROVE  TablesInv'
<1>1. ASSUME failures = 0 PROVE Unfailing'
  BY <1>1 DEF TablesInv, Unfailing
<1>2. ASSUME failures = 0 PROVE ScriptMade'
  BY <1>2 DEF TablesInv, ScriptMade, Scriptless, ScriptAt
<1>. QED
  BY <1>1, <1>2 DEF TablesInv

LEMMA StartsTables ==
  ASSUME Inv, TablesInv, host' = host, DbStarts \/ OrchestratorStarts \/ Restarts PROVE TablesInv'
<1>1. CASE DbStarts
  <2>1. /\ db = "starts" /\ db' = "ready"
        /\ UNCHANGED <<orchestrator, api, tables, templates, command, failures>>
    BY <1>1 DEF DbStarts, data, Working
  <2>2. ~host.external
    BY <2>1 DEF TablesInv
  <2>3. failures = 0 => ApiMade'
    BY <2>1 DEF TablesInv, ApiMade, Scriptless
  <2>. QED
    BY <2>1, <2>2, <2>3, ContainerTables DEF DbReachable, Booting
<1>2. CASE OrchestratorStarts
  <2>1. /\ DbReachable /\ UNCHANGED <<db, api, tables, templates, command, failures>>
    BY <1>2 DEF OrchestratorStarts, data, Working
  <2>2. host'.external => db' = "none"
    BY <2>1 DEF TablesInv
  <2>3. failures = 0 => ApiMade'
    BY <2>1 DEF TablesInv, ApiMade, Scriptless
  <2>. QED
    BY <2>1, <2>2, <2>3, ContainerTables DEF DbReachable, Booting
<1>3. CASE Restarts
  <2>1. Failing /\ (db' = db \/ (db # "none" /\ db' = "starts"))
    BY <1>3 DEF Restarts
  <2>. QED
    BY <2>1, FailingKeeps DEF TablesInv
<1>. QED
  BY <1>1, <1>2, <1>3

(* The server connects, listens and serves without touching a table.       *)
LEMMA ApiTables ==
  ASSUME Inv, TablesInv, host' = host, ApiConnects \/ ApiListens PROVE TablesInv'
<1>. UNCHANGED <<db, orchestrator, tables, templates, command, failures>>
  BY DEF ApiConnects, ApiListens, data, Working
<1>1. host'.external => db' = "none"
  BY DEF TablesInv
<1>2. failures = 0 => (orchestrator' = "healthy" => DbReachable')
  BY DEF TablesInv, Unfailing, DbReachable
<1>3. CASE ApiConnects
  <2>1. /\ api.at = "connects" /\ api'.persistent = FALSE /\ api'.n = 0
        /\ api'.at = "listens" \/ (api'.at = "creates" /\ DbReachable)
    BY <1>3, Boots, Serves DEF ApiConnects, Unpersistent, ApiStage
  <2>2. ApiMade'
    BY <2>1, TableNames DEF ApiMade
  <2>. QED
    BY <1>1, <1>2, <2>1, <2>2, ContainerTables DEF DbReachable, Booting
<1>4. CASE ApiListens
  <2>1. /\ api.at = "listens" /\ api'.at = "serves" /\ api'.persistent = api.persistent
    BY <1>4, Types, GoesOn DEF ApiListens, ApiStage
  <2>2. failures = 0 => ApiMade'
    BY <2>1 DEF TablesInv, ApiMade, Scriptless
  <2>. QED
    BY <1>1, <1>2, <2>1, <2>2, ContainerTables DEF DbReachable, Booting
<1>. QED
  BY <1>3, <1>4

LEMMA ApiCreatesTables ==
  ASSUME Inv, TablesInv, host' = host, ApiCreates PROVE TablesInv'
<1>. /\ UNCHANGED <<db, orchestrator, templates, command, failures>> /\ api.at = "creates"
  BY DEF ApiCreates, Working
<1>k. /\ host'.external => db' = "none"
      /\ failures = 0 => (orchestrator' = "healthy" => DbReachable')
      /\ failures = 0 => ApiMade /\ DbReachable /\ api.persistent = FALSE
  BY Types DEF TablesInv, Unfailing, DbReachable, ApiMade
<1>b. Booting
  BY DEF Booting
<1>1. CASE ~DbReachable
  <2>1. api'.at = "listens" /\ api'.persistent = FALSE
    BY <1>1, Serves DEF ApiCreates, Unpersistent, ApiStage
  <2>2. failures = 0 => ApiMade'
    BY <1>1, <1>k
  <2>. QED
    BY <1>k, <1>b, <2>1, <2>2, ContainerTables
<1>2. CASE DbReachable /\ api.n = Len(ApiOrder)
  <2>1. /\ api' = [api EXCEPT !.at = "templates"] /\ UNCHANGED tables
    BY <1>2 DEF ApiCreates
  <2>2. api'.at = "templates" /\ api'.persistent = api.persistent
    BY <2>1, Types, GoesOn DEF ApiStage
  <2>3. ASSUME failures = 0 PROVE ApiMade'
    <3>1. "topology_templates" \in tables
      BY <1>2, <1>k, <2>3 DEF ApiMade
    <3>2. Scriptless => Tables \subseteq tables
      BY <1>2, <1>k, <2>3, TableNames DEF ApiMade
    <3>. QED
      BY <1>k, <2>1, <2>2, <2>3, <3>1, <3>2 DEF ApiMade, Scriptless
  <2>4. DbReachable'
    BY <1>2 DEF DbReachable
  <2>. QED
    BY <1>k, <1>b, <2>2, <2>3, <2>4, ContainerTables
<1>3. CASE DbReachable /\ api.n # Len(ApiOrder)
  <2>1. /\ tables' = tables \cup {ApiOrder[api.n + 1]} /\ api' = [api EXCEPT !.n = @ + 1]
    BY <1>3 DEF ApiCreates
  <2>2. /\ api'.at = "creates" /\ api'.n = api.n + 1 /\ api'.persistent = api.persistent
        /\ api.n \in {0, 1, 2, 3}
    BY <1>3, <2>1, Types, Creates, TableNames
  <2>3. ASSUME failures = 0 PROVE ApiMade'
    <3>1. api'.n = Len(ApiOrder) => "topology_templates" \in tables'
      BY <2>1, <2>2, TableNames
    <3>2. ASSUME Scriptless, NEW i \in 1 .. api'.n PROVE ApiOrder[i] \in tables'
      <4>1. i = api.n + 1 \/ i \in 1 .. api.n
        BY <2>2
      <4>. QED
        BY <1>k, <2>1, <2>3, <3>2, <4>1 DEF ApiMade
    <3>. QED
      BY <1>k, <2>2, <2>3, <3>1, <3>2 DEF ApiMade, Scriptless
  <2>4. DbReachable'
    BY <1>3 DEF DbReachable
  <2>. QED
    BY <1>k, <1>b, <2>2, <2>3, <2>4, ContainerTables
<1>. QED
  BY <1>1, <1>2, <1>3

LEMMA ApiFillsTables ==
  ASSUME Inv, TablesInv, host' = host, ApiFillsTemplates PROVE TablesInv'
<1>1. /\ UNCHANGED <<db, orchestrator, tables, command, failures>> /\ api.at = "templates"
      /\ templates' = (templates \/ (DbReachable /\ "topology_templates" \in tables))
      /\ api' = [at |-> "listens", n |-> 0, persistent |-> TRUE]
  BY DEF ApiFillsTemplates, Working
<1>2. api'.at = "listens" /\ api'.persistent = TRUE
  BY <1>1, Serves DEF ApiStage
<1>3. /\ host'.external => db' = "none"
      /\ failures = 0 => (orchestrator' = "healthy" => DbReachable')
  BY <1>1 DEF TablesInv, Unfailing, DbReachable
<1>4. ASSUME failures = 0 PROVE ApiMade'
  <2>1. /\ DbReachable /\ "topology_templates" \in tables
        /\ Scriptless => Tables \subseteq tables
    BY <1>1, <1>4 DEF TablesInv, Unfailing, ApiMade
  <2>. QED
    BY <1>1, <1>2, <2>1 DEF ApiMade, Scriptless
<1>. QED
  BY <1>1, <1>2, <1>3, <1>4, ContainerTables DEF Booting

LEMMA RestTables ==
  ASSUME Inv, TablesInv, host' = host, Kill \/ Upgrade \/ UNCHANGED vars PROVE TablesInv'
<1>1. CASE Kill
  BY <1>1, ReturnTables DEF Kill, Working
<1>2. CASE Upgrade \/ UNCHANGED vars
  <2>1. UNCHANGED <<command, db, orchestrator, api, tables, templates, failures>>
    BY <1>2 DEF Upgrade, vars, containers, data
  <2>. QED
    BY <2>1 DEF TablesInv, Unfailing, ApiMade, ScriptMade, Scriptless, ScriptAt, Booting, DbReachable
<1>. QED
  BY <1>1, <1>2

LEMMA TablesNext == Inv /\ TablesInv /\ [Next]_vars => TablesInv'
<1> SUFFICES ASSUME Inv, TablesInv, [Next]_vars PROVE TablesInv'
  OBVIOUS
<1>0. host' = host
  BY DEF Next, vars
<1>1. CASE CommandStep
  <2>1. CASE \/ \E kind \in Kind : Begin(kind)
             \/ Confirm \/ Prerequisites \/ Extract \/ ExtractFails \/ Pull
    BY <1>0, <2>1, FilesTables
  <2>2. CASE ComposeUp \/ ComposeUpFails
    BY <1>0, <2>2, ComposeUpTables
  <2>3. CASE WaitForMetadata \/ WaitForOrchestrator \/ WaitForAPI \/ WaitForOpenClaw
    BY <1>0, <2>3, WaitTables
  <2>4. CASE CreateTables
    BY <1>0, <2>4, CreateTablesTables
  <2>5. CASE \/ ComposeDown \/ ComposeDownFails
             \/ StopContainers \/ StopContainersFails \/ RemoveVolumes \/ RemoveVolumesFails
    BY <1>0, <2>5, DownTables, VolumesTables
  <2>. QED
    BY <1>1, <2>1, <2>2, <2>3, <2>4, <2>5 DEF CommandStep
<1>2. CASE Container
  BY <1>0, <1>2, StartsTables, ApiTables, ApiCreatesTables, ApiFillsTables DEF Container
<1>3. CASE Kill \/ Upgrade \/ UNCHANGED vars
  BY <1>0, <1>3, RestTables
<1>. QED
  BY <1>1, <1>2, <1>3 DEF Next

(* "ClawSQL platform is ready!" (start.ts): as long as no program has      *)
(* failed, a server that has found its database has all its tables and     *)
(* templates then, although /start drops tables of a running server,       *)
(* unless the script met a server that was just creating them.             *)
THEOREM ReadyIsComplete == Spec => ReadyHasItsTables
<1>1. Inv /\ TablesInv /\ [Next]_vars
        => [(answer' = "ready" /\ command # Idle /\ command' = Idle
               /\ failures = 0 /\ api.persistent /\ ~command.raced)
              => tables = Tables /\ templates]_vars
  <2> SUFFICES ASSUME Inv, TablesInv, Next, answer' = "ready", command # Idle, command' = Idle,
                      failures = 0, api.persistent, ~command.raced
               PROVE  tables = Tables /\ templates
    OBVIOUS
  <2>1. command.at \in {"api", "gateway"}
    <3>1. WaitForAPI \/ WaitForOpenClaw
      BY Ending
    <3>. QED
      BY <3>1 DEF WaitForAPI, WaitForOpenClaw, At
  <2>2. api.persistent = TRUE /\ command.raced = FALSE /\ tables \subseteq Tables
    BY Types
  <2>3. templates = TRUE /\ "topology_templates" \in tables /\ (Scriptless => Tables \subseteq tables)
    BY <2>2 DEF TablesInv, ApiMade
  <2>4. ASSUME ~Scriptless PROVE Tables \subseteq tables
    <3>1. ScriptAt(2 * Drops)
      BY <2>1, <2>2, <2>4 DEF TablesInv, ScriptMade
    <3>2. \A i \in {1, 2, 3} : StartOrder[i] \in tables
      BY <3>1, TableNames DEF ScriptAt
    <3>. QED
      BY <2>3, <3>2, TableNames
  <2>. QED
    BY <2>2, <2>3, <2>4
<1>. QED
  BY <1>1, TablesInit, TablesNext, AlwaysInv, PTL DEF Spec, ReadyHasItsTables
=============================================================================
