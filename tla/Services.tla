------------------------------ MODULE Services ------------------------------
(***************************************************************************)
(* A conode's services: the factory they are registered with, the server   *)
(* that starts them, the tables that lead messages and protocols to them,  *)
(* and the data each of them saves and loads again after a crash.          *)
(*                                                                         *)
(* The factory and the global protocols are filled before a server is      *)
(* made.  A service is known by its name: its ID is a hash of it.          *)
(***************************************************************************)
EXTENDS Naturals, Sequences, FiniteSets, Functions

CONSTANTS
    Names,        \* the names of the services
    MsgTypes,     \* the types of the messages between servers
    Handles,      \* the message types that a service's constructor registers for
    Late,         \* those it registers for when it is already running
    Protos,       \* the names of protocols
    Tied,         \* the protocols that a service's constructor registers
    Makes,        \* the protocols that a service's NewProtocol makes instances of
    MaxSaves      \* bound: how often data is saved

Nobody == "nobody"
Global == "global"

ASSUME ServicesAssumption ==
    /\ Nobody \notin Names /\ Global \notin Names
    /\ Handles \in [Names -> SUBSET MsgTypes]
    /\ Late \in [Names -> SUBSET MsgTypes]
    /\ Tied \in [Names -> SUBSET Protos]
    /\ Makes \in [Names -> SUBSET Protos]
    /\ MaxSaves \in Nat

VARIABLES
    constructors,   \* ServiceFactory.constructors
    globals,        \* the protocols of the global storage
    server,         \* "off", "starting" or "running"
    toStart,        \* the services that newServiceManager has still to start
    services,       \* the services it has started, in that order
    toManager,      \* the router's dispatcher: the types that lead to the manager
    procs,          \* the manager's dispatcher: the service of a type
    late,           \* a registration between its two steps
    wanted,         \* history: who has registered for a type, the last one last
    missed,         \* history: the types of messages that did not reach the last one
    instantiators,  \* the server's protocols: "global", or the service they are tied to
    made,           \* history: the instances of protocols, and by whom they were made
    files,          \* the files by name: the number of the save, or Cut
    saving,         \* the service that is writing its file
    saves,          \* how often data was saved
    loaded,         \* what the constructor of a service has loaded
    lastSaved       \* history: the last save of each service that was completed

regVars == <<constructors, globals>>
startVars == <<server, toStart, services>>
msgVars == <<toManager, procs, late, wanted, missed>>
protoVars == <<instantiators, made>>
dataVars == <<files, saving, saves, loaded, lastSaved>>
service_vars == <<regVars, startVars, msgVars, protoVars, dataVars>>

Absent == 0
Cut == MaxSaves + 1

NoProcs == [t \in MsgTypes |-> Nobody]
NoProtocols == [p \in Protos |-> Nobody]
NoneWanted == [t \in MsgTypes |-> <<>>]

ServicesInit ==
    /\ constructors = <<>> /\ globals = {}
    /\ server = "off"
    /\ toStart = <<>> /\ services = <<>>
    /\ toManager = {} /\ procs = NoProcs /\ late = <<>>
    /\ wanted = NoneWanted
    /\ instantiators = NoProtocols /\ made = {}
    /\ saving = Nobody
    /\ files = [f \in Names \cup {Nobody} |-> Absent]
    /\ saves = 0
    /\ loaded = [s \in Names |-> Absent] /\ lastSaved = [s \in Names |-> Absent]
    /\ missed = {}

Runs(s) == server = "running" /\ s \in Range(services)

-----------------------------------------------------------------------------
(* The factory *)

NotRegistered(name) == name \notin Range(constructors)

Register(name) ==
    /\ server = "off" /\ NotRegistered(name)
    /\ constructors' = Append(constructors, name)
    /\ UNCHANGED <<globals, startVars, msgVars, protoVars, dataVars>>

Unregister(name) ==
    /\ server = "off"
    /\ \E i \in DOMAIN constructors :
        /\ constructors[i] = name
        /\ constructors' = [j \in 1..(Len(constructors) - 1) |->
                               constructors[IF j < i THEN j ELSE j + 1]]
    /\ UNCHANGED <<globals, startVars, msgVars, protoVars, dataVars>>

GlobalProtocolRegister(p) ==
    /\ server = "off" /\ p \notin globals
    /\ globals' = globals \cup {p}
    /\ UNCHANGED <<constructors, startVars, msgVars, protoVars, dataVars>>

-----------------------------------------------------------------------------
(* The data of a service, under one identifier *)

\* Mutation: services share the file of an identifier.
ByIdentifier(s) == Nobody

absFilename(s) == s

DataAvailable(s) == files[absFilename(s)] # Absent

\* Save: WriteFile truncates the file, and then fills it.
Save(s) ==
    /\ Runs(s) /\ saving = Nobody
    /\ saves < MaxSaves
    /\ saving' = s
    /\ saves' = saves + 1
    /\ files' = [files EXCEPT ![absFilename(s)] = Cut]
    /\ UNCHANGED <<regVars, startVars, msgVars, protoVars, loaded, lastSaved>>

SaveReturns(s) ==
    /\ Runs(s) /\ saving = s
    /\ saving' = Nobody
    /\ files' = [files EXCEPT ![absFilename(s)] = saves]
    /\ lastSaved' = [lastSaved EXCEPT ![s] = saves]
    /\ UNCHANGED <<regVars, startVars, msgVars, protoVars, saves, loaded>>

\* Load returns an error for a file that was cut: it does not decode.
Load(s) == IF DataAvailable(s) THEN files[absFilename(s)] ELSE Absent

-----------------------------------------------------------------------------
(* Starting a server *)

\* NewServer, up to newServiceManager, which takes the registered services.
NewServer ==
    /\ server = "off" /\ constructors # <<>>
    /\ server' = "starting"
    /\ toStart' = constructors
    /\ UNCHANGED <<regVars, services, msgVars, protoVars, dataVars>>

\* protocolStorage.Register keeps what is there.
ProtocolRegister(p, by) == IF instantiators[p] = Nobody THEN by ELSE instantiators[p]

\* BlockingDispatcher.RegisterProcessor: the last one counts.
RegisterProcessor(t, s) == s

\* serviceFactory.start, with what the constructor does: it loads its data, registers
\* for messages and ties protocols to the server.  No message can arrive yet.
startService ==
    /\ server = "starting" /\ toStart # <<>>
    /\ LET s == Head(toStart) IN
        /\ toStart' = Tail(toStart)
        /\ services' = Append(services, s)
        /\ loaded' = [loaded EXCEPT ![s] = Load(s)]
        /\ toManager' = toManager \cup Handles[s]
        /\ procs' = [t \in MsgTypes |-> IF t \in Handles[s] THEN RegisterProcessor(t, s) ELSE procs[t]]
        /\ wanted' = [t \in MsgTypes |-> IF t \in Handles[s] THEN Append(wanted[t], s) ELSE wanted[t]]
        /\ instantiators' = [p \in Protos |->
                               IF p \in Tied[s] THEN ProtocolRegister(p, s) ELSE instantiators[p]]
    /\ UNCHANGED <<regVars, server, late, missed, made, files, saving, saves, lastSaved>>

\* The rest of NewServer copies the global protocols; then the router is started.
AllStarted ==
    /\ server = "starting" /\ toStart = <<>>
    /\ server' = "running"
    /\ instantiators' = [p \in Protos |->
                           IF p \in globals THEN ProtocolRegister(p, Global) ELSE instantiators[p]]
    /\ UNCHANGED <<regVars, toStart, services, msgVars, made, dataVars>>

\* The process ends at any time, with all that is in memory.
Crash ==
    /\ server # "off"
    /\ server' = "off"
    /\ toStart' = <<>> /\ services' = <<>>
    /\ toManager' = {} /\ procs' = NoProcs /\ late' = <<>>
    /\ wanted' = NoneWanted
    /\ instantiators' = NoProtocols /\ made' = {}
    /\ saving' = Nobody
    /\ UNCHANGED <<regVars, missed, files, saves, loaded, lastSaved>>

-----------------------------------------------------------------------------
(* Messages and protocols *)

\* registerProcessor of a running service: first with the router's dispatcher ...
LateRegister(s, t) ==
    /\ Runs(s) /\ t \in Late[s] /\ s \notin Range(wanted[t]) /\ late = <<>>
    /\ toManager' = toManager \cup {t}
    /\ late' = <<s, t>>
    /\ UNCHANGED <<regVars, startVars, procs, wanted, missed, protoVars, dataVars>>

\* ... and then with the manager's own.
LateRegistered ==
    /\ late # <<>>
    /\ LET s == late[1]
           t == late[2]
       IN /\ procs' = [procs EXCEPT ![t] = RegisterProcessor(t, s)]
          /\ wanted' = [wanted EXCEPT ![t] = Append(@, s)]
    /\ late' = <<>>
    /\ UNCHANGED <<regVars, startVars, toManager, missed, protoVars, dataVars>>

\* A message arrives.  The router's dispatcher leads it to the manager, the manager's
\* to a service; without a processor it is dropped.
Dispatch(t) ==
    /\ server = "running"
    /\ LET to == IF t \in toManager THEN procs[t] ELSE Nobody
       IN missed' = IF wanted[t] # <<>> /\ to # wanted[t][Len(wanted[t])] THEN missed \cup {t} ELSE missed
    /\ UNCHANGED <<regVars, startVars, toManager, procs, late, wanted, protoVars, dataVars>>

\* serviceManager.newProtocol for a token with service s, or without one: the instance
\* is made by the service, or, if there is none or it leaves it to onet, by the
\* constructor that the server has for the protocol.
newProtocol(s, p) ==
    /\ server = "running"
    /\ LET own == s \in Range(services) /\ p \in Makes[s]
       IN /\ own \/ instantiators[p] # Nobody
          /\ made' = made \cup {<<p, IF own THEN s ELSE instantiators[p]>>}
    /\ UNCHANGED <<regVars, startVars, msgVars, instantiators, dataVars>>

ServicesNext ==
    \/ \E s \in Names : Register(s) \/ Unregister(s) \/ Save(s) \/ SaveReturns(s)
    \/ \E p \in Protos : GlobalProtocolRegister(p)
    \/ NewServer \/ startService \/ AllStarted \/ Crash
    \/ \E s \in Names, t \in MsgTypes : LateRegister(s, t)
    \/ LateRegistered
    \/ \E t \in MsgTypes : Dispatch(t)
    \/ \E s \in Names \cup {Nobody}, p \in Protos : newProtocol(s, p)

ServicesSpec == ServicesInit /\ [][ServicesNext]_service_vars

-----------------------------------------------------------------------------
(* Properties *)

\* A running server has started every registered service once, in the order of
\* registration, whatever was registered and unregistered before.
StartedOnce == server = "running" => services = constructors /\ IsInjective(services)

\* A message whose type has a processor reaches the one that registered last, while
\* other services register for the same type.
ReachesLast == missed = {}

\* After a restart a service loads what it saved last, or an error if the process ended
\* while it was saving: never nothing, older data or the data of another service.
LoadedIsSaved ==
    server = "starting" => \A s \in Range(services) :
        loaded[s] = lastSaved[s] \/ (loaded[s] = Cut /\ files[absFilename(s)] = Cut)

\* A protocol that a service ties to the server is never made by a constructor that was
\* registered globally under the same name.
TiedIsKept ==
    \A i \in made : i[2] = Global => \A s \in Range(services) : i[1] \notin Tied[s]

(* Services, handlers, protocols and saved data stay those of the service that they    *)
(* belong to, in whatever order services register, start, save and crash.              *)
ServicesAreKept == StartedOnce /\ ReachesLast /\ LoadedIsSaved /\ TiedIsKept

=============================================================================
