---------------------------- MODULE HostStartup ----------------------------
(***************************************************************************)
(* Hosts that start on one runtime home: the resources bootstrap acquires  *)
(* one after the other and releases when a later step fails, the bounded   *)
(* connection to the secondary knowledge store, the health probe of the    *)
(* socket path, and what each host does to the socket file when it starts, *)
(* stops or is killed. Each host is a process of its own.                  *)
(***************************************************************************)
EXTENDS Naturals, FiniteSets

CONSTANTS
  Hosts,      \* processes started on the same runtime home
  MaxStarts   \* a bound on the starts of each

ASSUME StartupAssumption ==
  /\ Hosts \cap {"absent", "dead"} = {} /\ MaxStarts \in Nat

VARIABLES
  stage,      \* how far each host has come
  held,       \* the stores it owns: project, global, knowledge
  handles,    \* open connections to the knowledge store, owned or not
  connecting, \* no, pending, or late: the deadline passed before it settled
  socket,     \* who listens at the path; "dead" is a file without a listener
  starts,     \* how often each was started
  stolen      \* some host removed the socket of a live one

startupVars == <<stage, held, handles, connecting, socket, starts, stolen>>

Serving(h) == stage[h] \in {"serving", "stopping"}
goto(h, s) == stage' = [stage EXCEPT ![h] = s]

StartupInit ==
  /\ stage = [h \in Hosts |-> "off"] /\ held = [h \in Hosts |-> {}]
  /\ handles = [h \in Hosts |-> 0] /\ connecting = [h \in Hosts |-> "no"]
  /\ socket \in {"absent", "dead"} /\ starts = [h \in Hosts |-> 0] /\ stolen = FALSE

(* The finally block of bootstrap and onStopped: knowledge, project, global. *)
releaseAll(h) ==
  /\ held' = [held EXCEPT ![h] = {}]
  /\ handles' = [handles EXCEPT ![h] = @ - Cardinality(held[h] \cap {"knowledge"})]

(* Configuration is resolved before any state is touched. *)
Resolve(h) ==
  /\ stage[h] = "off" /\ connecting[h] = "no" /\ starts[h] < MaxStarts
  /\ starts' = [starts EXCEPT ![h] = @ + 1]
  /\ stage' \in {stage, [stage EXCEPT ![h] = "resolved"]}
  /\ UNCHANGED <<held, handles, connecting, socket, stolen>>

(* ProjectStorageBootstrap.open: opened, migrated and complete, or closed   *)
(* again before the error.                                                  *)
OpenProject(h) ==
  /\ stage[h] = "resolved"
  /\ \/ goto(h, "project") /\ held' = [held EXCEPT ![h] = {"project"}]
     \/ goto(h, "off") /\ UNCHANGED held
  /\ UNCHANGED <<handles, connecting, socket, starts, stolen>>

(* openDatabase, migrateGlobal: the database is already held when its       *)
(* migration fails.                                                         *)
OpenGlobal(h) ==
  /\ stage[h] = "project"
  /\ \/ goto(h, "global") /\ held' = [held EXCEPT ![h] = @ \cup {"global"}] /\ UNCHANGED handles
     \/ goto(h, "off") /\ releaseAll(h)
  /\ UNCHANGED <<connecting, socket, starts, stolen>>

(* Without a configured store there is nothing to connect to. *)
Connect(h) ==
  /\ stage[h] = "global" /\ connecting[h] = "no"
  /\ \/ connecting' = [connecting EXCEPT ![h] = "pending"] /\ UNCHANGED stage
     \/ goto(h, "composing") /\ UNCHANGED connecting
  /\ UNCHANGED <<held, handles, socket, starts, stolen>>

(* The race of connectKnowledgeWithDeadline: a handle, a rejection, or the  *)
(* deadline. Knowledge is advisory: the host goes on in every case.         *)
ConnectSettles(h) ==
  /\ connecting[h] = "pending" /\ goto(h, "composing")
  /\ \/ /\ connecting' = [connecting EXCEPT ![h] = "no"]
        /\ \/ /\ held' = [held EXCEPT ![h] = @ \cup {"knowledge"}]
              /\ handles' = [handles EXCEPT ![h] = @ + 1]
           \/ UNCHANGED <<held, handles>>
     \/ connecting' = [connecting EXCEPT ![h] = "late"] /\ UNCHANGED <<held, handles>>
  /\ UNCHANGED <<socket, starts, stolen>>

(* Fault: a handle that comes late is kept. *)
LateSettles_KeepsHandle(h) ==
  /\ connecting[h] = "late"
  /\ connecting' = [connecting EXCEPT ![h] = "no"]
  /\ handles' = [handles EXCEPT ![h] = @ + 1]
  /\ UNCHANGED <<stage, held, socket, starts, stolen>>

(* The late connector: its handle is closed as soon as it exists. *)
LateSettles(h) ==
  /\ connecting[h] = "late"
  /\ connecting' = [connecting EXCEPT ![h] = "no"]
  /\ UNCHANGED <<stage, held, handles, socket, starts, stolen>>

(* The rest of the composition, and the transfer of ownership to the host. *)
Compose(h) ==
  /\ stage[h] = "composing"
  /\ \/ goto(h, "ready") /\ UNCHANGED <<held, handles>>
     \/ goto(h, "off") /\ releaseAll(h)
  /\ UNCHANGED <<connecting, socket, starts, stolen>>

(* prepareSocket up to the answer of the probe: a live host answers, or is  *)
(* too busy for 500 ms; nobody answers behind a dead file.                  *)
Probe(h) ==
  /\ stage[h] = "ready"
  /\ \/ socket = "absent" /\ goto(h, "binding") /\ UNCHANGED <<held, handles>>
     \/ socket \in Hosts /\ goto(h, "off") /\ releaseAll(h)
     \/ socket # "absent" /\ goto(h, "unlinking") /\ UNCHANGED <<held, handles>>
  /\ UNCHANGED <<connecting, socket, starts, stolen>>

(* removeSocket: whatever is at the path by now. *)
removeSocket(h) ==
  /\ socket' = "absent"
  /\ stolen' = (stolen \/ socket \in Hosts \ {h})

Unlink(h) ==
  /\ stage[h] = "unlinking" /\ goto(h, "binding")
  /\ removeSocket(h)
  /\ UNCHANGED <<held, handles, connecting, starts>>

(* Bun.serve, external: it cannot listen on a path that exists. *)
Bind(h) ==
  /\ stage[h] = "binding"
  /\ \/ socket = "absent" /\ socket' = h /\ goto(h, "serving") /\ UNCHANGED <<held, handles>>
     \/ socket # "absent" /\ goto(h, "off") /\ releaseAll(h) /\ UNCHANGED socket
  /\ UNCHANGED <<connecting, starts, stolen>>

(* The signal, or a failing onStarting. *)
BeginHostStop(h) ==
  /\ stage[h] = "serving" /\ goto(h, "stopping")
  /\ UNCHANGED <<held, handles, connecting, socket, starts, stolen>>

EndHostStop(h) ==
  /\ stage[h] = "stopping" /\ goto(h, "off")
  /\ removeSocket(h) /\ releaseAll(h)
  /\ UNCHANGED <<connecting, starts>>

(* The process is killed: the system closes its handles, the file stays. *)
Kill(h) ==
  /\ stage[h] # "off" /\ goto(h, "off")
  /\ held' = [held EXCEPT ![h] = {}] /\ handles' = [handles EXCEPT ![h] = 0]
  /\ connecting' = [connecting EXCEPT ![h] = "no"]
  /\ socket' = IF socket = h THEN "dead" ELSE socket
  /\ UNCHANGED <<starts, stolen>>

StartupNext == \E h \in Hosts :
  \/ Resolve(h) \/ OpenProject(h) \/ OpenGlobal(h)
  \/ Connect(h) \/ ConnectSettles(h) \/ LateSettles(h) \/ Compose(h)
  \/ Probe(h) \/ Unlink(h) \/ Bind(h)
  \/ BeginHostStop(h) \/ EndHostStop(h) \/ Kill(h)

StartupSpec == StartupInit /\ [][StartupNext]_startupVars

StartupTypeOK ==
  /\ stage \in [Hosts -> {"off", "resolved", "project", "global", "composing", "ready",
                          "unlinking", "binding", "serving", "stopping"}]
  /\ held \in [Hosts -> SUBSET {"project", "global", "knowledge"}]
  /\ connecting \in [Hosts -> {"no", "pending", "late"}]
  /\ socket \in Hosts \cup {"absent", "dead"} /\ stolen \in BOOLEAN
  /\ \A h \in Hosts : socket = h => Serving(h)

(* A host that is down, whichever step failed or stopped it, owns nothing,  *)
(* and a store connection exists only while a host owns it: bootstrap       *)
(* releases what it had when a later step fails and a connection that       *)
(* arrives after its deadline is closed.                                    *)
NothingLeftOpen ==
  \A h \in Hosts :
    /\ stage[h] = "off" => held[h] = {}
    /\ handles[h] = Cardinality(held[h] \cap {"knowledge"})

(* Two hosts serve one runtime home only after some host removed the socket *)
(* of a live one, because that one did not answer the probe in time, or was *)
(* bound between the probe and the removal.                                 *)
ExclusiveUnlessStolen ==
  ~stolen => \A g, h \in Hosts : Serving(g) /\ Serving(h) => g = h

(* What holds of hosts that come and go: nothing leaks, and the socket path *)
(* keeps a second host out unless it was stolen.                            *)
StartupSafety == StartupTypeOK /\ NothingLeftOpen /\ ExclusiveUnlessStolen
=============================================================================
