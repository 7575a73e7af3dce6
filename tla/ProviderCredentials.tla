------------------------- MODULE ProviderCredentials -------------------------
(***************************************************************************)
(* Provider credentials of the Runtime host: the owner-only files under    *)
(* <AI_OFFICE_HOME>/credentials (llm-gateway/src/runtime-home-credential-  *)
(* store.ts), the `credential set|remove` commands that change them        *)
(* (apps/cli/src/credential-cli.ts) and what a starting Runtime loads      *)
(* (provider-credentials.ts).                                              *)
(*                                                                         *)
(* Every command is a process of its own that takes no lock: each system   *)
(* call is a step.  A process may be killed, the machine may lose power,   *)
(* and the operator may change the directory by hand.                      *)
(***************************************************************************)
EXTENDS Naturals, FiniteSets

CONSTANTS
  CredentialNames,     \* the names registered providers declare
  Secrets,             \* values a set command is given
  CredentialCommands,  \* processes
  MaxCredentialCommands, MaxMishaps

\* A secret is none of the other contents, and "nobody" is no process.
ASSUME CredentialAssumption ==
    /\ Secrets \cap {"none", "planted", "malformed", "partial", "ambient"} = {}
    /\ "nobody" \notin CredentialCommands
    /\ MaxCredentialCommands \in Nat /\ MaxMishaps \in Nat

VARIABLES
  credentialDirectory,
  entry,          \* what is at each name
  durable,        \* and what the disk is known to hold there
  temporaries,    \* the temporary files, with the process that made them
  process,        \* the commands
  hostEnvironment,
  snapshot,       \* what the running Runtime loaded
  given,          \* the values put at each name, by command or by hand
  stored,         \* the last value reported stored, while nothing raced it
  ran, mishaps

credentialVars == <<credentialDirectory, entry, durable, temporaries, process, hostEnvironment, snapshot, given, stored, ran, mishaps>>

NoEntry == [kind |-> "none", holds |-> "none", flushed |-> TRUE]
File(secret, flushed) == [kind |-> "file", holds |-> secret, flushed |-> flushed]
\* What a hand may leave at a name: a readable file, a link to one, a directory.
Tampered == {[kind |-> k, holds |-> "planted", flushed |-> TRUE] : k \in {"exposed", "link", "directory"}}
              \cup {File("malformed", TRUE), NoEntry}
Resting == [step |-> "idle", verb |-> "none", name |-> "none", secret |-> "none"]

(******************************** Reading *********************************)
Unusable(issue) == [state |-> "invalid", value |-> "none", issue |-> issue]
MissingCredential == [state |-> "missing", value |-> "none", issue |-> "none"]
Present(v) == [state |-> "present", value |-> v, issue |-> "none"]
\* credentialValueLength
wellFormed(holds) == holds \in Secrets

withRuntimeHomeCredentialBytes(n) ==
    LET e == entry[n]
    IN  CASE credentialDirectory = "missing" -> MissingCredential
          [] credentialDirectory = "insecure" -> Unusable("CREDENTIAL_DIRECTORY_INSECURE")
          [] credentialDirectory = "private" /\ e.kind = "none" -> MissingCredential
          [] credentialDirectory = "private" /\ e.kind = "link" -> Unusable("CREDENTIAL_SYMLINK")
          [] credentialDirectory = "private" /\ e.kind = "directory" -> Unusable("CREDENTIAL_NOT_REGULAR_FILE")
          [] credentialDirectory = "private" /\ e.kind = "exposed" -> Unusable("CREDENTIAL_INSECURE_PERMISSIONS")
          [] credentialDirectory = "private" /\ e.kind = "file" ->
               IF wellFormed(e.holds) THEN Present(e.holds) ELSE Unusable("CREDENTIAL_MALFORMED")

ambientCredential(environment) == IF environment.ambient THEN Present("ambient") ELSE MissingCredential
\* loadProviderCredentials for one name: sources never mix.
loadCredential(environment, n) ==
    CASE environment.source = "other" -> Unusable("CREDENTIAL_SOURCE_INVALID")
      [] environment.source = "none" -> ambientCredential(environment)
      [] environment.source = "runtime_home" -> withRuntimeHomeCredentialBytes(n)
loadProviderCredentials(environment) ==
    [source |-> environment.source, ambient |-> environment.ambient,
     credentials |-> [n \in CredentialNames |-> loadCredential(environment, n)]]

(******************************** Commands ********************************)
CredentialInit ==
    /\ credentialDirectory \in {"missing", "private", "insecure"}
    /\ entry = [n \in CredentialNames |-> NoEntry] /\ durable = entry
    /\ temporaries = {}
    /\ process = [p \in CredentialCommands |-> Resting]
    /\ hostEnvironment \in [source : {"none", "runtime_home", "other"}, ambient : BOOLEAN]
    /\ snapshot = loadProviderCredentials(hostEnvironment)
    /\ given = [n \in CredentialNames |-> {}] /\ stored = [n \in CredentialNames |-> "unknown"]
    /\ ran = 0 /\ mishaps = 0

others == <<hostEnvironment, snapshot>>
goesTo(p, step) == process' = [process EXCEPT ![p].step = step]
\* A command ends, having changed nothing at the name.
refuses(p) == process' = [process EXCEPT ![p] = Resting]
\* Commands for the same name in flight together race.
racing(n) == \E p \in CredentialCommands : process[p].name = n

BeginSet(p, n, v) ==
    /\ process[p] = Resting /\ ran < MaxCredentialCommands
    /\ ran' = ran + 1
    /\ process' = [process EXCEPT ![p] = [step |-> "ensure", verb |-> "set", name |-> n, secret |-> v]]
    /\ given' = [given EXCEPT ![n] = @ \cup {v}]
    /\ stored' = IF racing(n) THEN [stored EXCEPT ![n] = "unknown"] ELSE stored
    /\ UNCHANGED <<credentialDirectory, entry, durable, temporaries, mishaps, others>>
BeginRemove(p, n) ==
    /\ process[p] = Resting /\ ran < MaxCredentialCommands
    /\ ran' = ran + 1
    /\ process' = [process EXCEPT ![p] = [step |-> "inspect", verb |-> "remove", name |-> n, secret |-> "none"]]
    /\ stored' = [stored EXCEPT ![n] = "unknown"]
    /\ UNCHANGED <<credentialDirectory, entry, durable, temporaries, given, mishaps, others>>

\* ensureDirectory, then assertReplaceable.
EnsureDirectory(p) ==
    /\ process[p].step = "ensure"
    /\ IF credentialDirectory = "insecure"
       THEN refuses(p) /\ UNCHANGED credentialDirectory
       ELSE goesTo(p, "replaceable") /\ credentialDirectory' = "private"
    /\ UNCHANGED <<entry, durable, temporaries, given, stored, ran, mishaps, others>>
AssertReplaceable(p) ==
    /\ process[p].step = "replaceable"
    /\ IF entry[process[p].name].kind \in {"link", "directory"} THEN refuses(p) ELSE goesTo(p, "create")
    /\ UNCHANGED <<credentialDirectory, entry, durable, temporaries, given, stored, ran, mishaps, others>>

mine(p) == {t \in temporaries : t.by = p}
\* openSync with O_EXCL: an empty owner-only temporary file.
CreateTemporary(p) ==
    /\ process[p].step = "create"
    /\ \/ temporaries' = temporaries \cup {[by |-> p, name |-> process[p].name, content |-> File("partial", FALSE)]} /\ goesTo(p, "write")
       \/ refuses(p) /\ UNCHANGED temporaries
    /\ UNCHANGED <<credentialDirectory, entry, durable, given, stored, ran, mishaps, others>>

\* Written to the last byte, and flushed.
written(p) == File(process[p].secret, TRUE)
\* Fault: the temporary file stays when the write fails.
cleanUp_Forgotten(p) == UNCHANGED temporaries
cleanUp(p) == temporaries' = temporaries \ mine(p)
WriteTemporary(p) ==
    /\ process[p].step = "write"
    /\ \/ /\ temporaries' = (temporaries \ mine(p)) \cup {[by |-> p, name |-> process[p].name, content |-> written(p)]}
          /\ goesTo(p, "rename")
       \/ cleanUp(p) /\ refuses(p)
    /\ UNCHANGED <<credentialDirectory, entry, durable, given, stored, ran, mishaps, others>>

\* The name holds the new file; nothing else of this name raced, so it is
\* what the next Runtime loads.
replaces(n, content) == entry' = [entry EXCEPT ![n] = content]
RenameTemporary(p) ==
    LET n == process[p].name
        content == (CHOOSE t \in mine(p) : TRUE).content
    IN  /\ process[p].step = "rename"
        /\ \/ /\ entry[n].kind # "directory"
              /\ replaces(n, content)
              /\ stored' = [stored EXCEPT ![n] = IF \E q \in CredentialCommands \ {p} : process[q].name = n THEN "unknown"
                                                 ELSE process[p].secret]
              /\ goesTo(p, "sync")
           \/ refuses(p) /\ UNCHANGED <<entry, stored>>
        /\ cleanUp(p)
        /\ UNCHANGED <<credentialDirectory, durable, given, ran, mishaps, others>>

\* syncDirectory, best effort; then the command answers.
SyncDirectory(p) ==
    /\ process[p].step = "sync"
    /\ \/ durable' = entry
       \/ UNCHANGED durable
    /\ refuses(p)
    /\ UNCHANGED <<credentialDirectory, entry, temporaries, given, stored, ran, mishaps, others>>

\* removeRuntimeHomeCredential: inspect, then unlink; a link is removed as a link.
InspectForRemoval(p) ==
    /\ process[p].step = "inspect"
    /\ IF credentialDirectory = "private" /\ entry[process[p].name].kind \notin {"none", "directory"}
       THEN goesTo(p, "unlink") ELSE refuses(p)
    /\ UNCHANGED <<credentialDirectory, entry, durable, temporaries, given, stored, ran, mishaps, others>>
Unlink(p) ==
    LET n == process[p].name
    IN  /\ process[p].step = "unlink"
        /\ IF entry[n].kind \in {"none", "directory"}
           THEN refuses(p) /\ UNCHANGED entry
           ELSE entry' = [entry EXCEPT ![n] = NoEntry] /\ goesTo(p, "sync")
        /\ UNCHANGED <<credentialDirectory, durable, temporaries, given, stored, ran, mishaps, others>>

(****************************** Environment *******************************)
happens == mishaps < MaxMishaps /\ mishaps' = mishaps + 1
orphaned(t) == [t EXCEPT !.by = "nobody"]
KillCommand(p) ==
    /\ happens /\ process[p] # Resting
    /\ process' = [process EXCEPT ![p] = Resting]
    /\ temporaries' = (temporaries \ mine(p)) \cup {orphaned(t) : t \in mine(p)}
    /\ UNCHANGED <<credentialDirectory, entry, durable, given, stored, ran, others>>
\* Power is lost: a rename or a removal may be undone, and a file that was not
\* flushed may come back short.
afterPowerLoss(e) == {e, [e EXCEPT !.holds = IF e.flushed THEN @ ELSE "partial"]}
LosePower ==
    /\ happens
    /\ \E e \in [CredentialNames -> UNION {afterPowerLoss(entry[n]) \cup {durable[n]} : n \in CredentialNames}] :
         /\ \A n \in CredentialNames : e[n] \in afterPowerLoss(entry[n]) \cup {durable[n]}
         /\ entry' = e /\ durable' = e
    /\ process' = [p \in CredentialCommands |-> Resting]
    /\ temporaries' = {orphaned(t) : t \in temporaries}
    /\ stored' = [n \in CredentialNames |-> "unknown"]
    /\ UNCHANGED <<credentialDirectory, given, ran, others>>
Tamper(n, e) ==
    /\ happens /\ credentialDirectory # "missing" /\ entry[n] # e
    /\ entry' = [entry EXCEPT ![n] = e] /\ durable' = [durable EXCEPT ![n] = e]
    /\ stored' = [stored EXCEPT ![n] = "unknown"]
    /\ UNCHANGED <<credentialDirectory, temporaries, process, given, ran, others>>
ChangeDirectoryMode ==
    /\ happens /\ credentialDirectory # "missing"
    /\ credentialDirectory' = IF credentialDirectory = "private" THEN "insecure" ELSE "private"
    /\ UNCHANGED <<entry, durable, temporaries, process, given, stored, ran, others>>
\* The Runtime starts, in the foreground or as a service.
StartRuntime(environment) ==
    /\ hostEnvironment' = environment
    /\ snapshot' = loadProviderCredentials(environment)
    /\ UNCHANGED <<credentialDirectory, entry, durable, temporaries, process, given, stored, ran, mishaps>>

CredentialNext ==
    \/ \E p \in CredentialCommands :
         \/ \E n \in CredentialNames : BeginRemove(p, n) \/ \E v \in Secrets : BeginSet(p, n, v)
         \/ EnsureDirectory(p) \/ AssertReplaceable(p) \/ CreateTemporary(p) \/ WriteTemporary(p) \/ RenameTemporary(p)
         \/ SyncDirectory(p) \/ InspectForRemoval(p) \/ Unlink(p) \/ KillCommand(p)
    \/ LosePower \/ ChangeDirectoryMode
    \/ \E n \in CredentialNames, e \in Tampered : Tamper(n, e)
    \/ \E environment \in [source : {"none", "runtime_home", "other"}, ambient : BOOLEAN] : StartRuntime(environment)
CredentialSpec == CredentialInit /\ [][CredentialNext]_credentialVars

(******************************* Properties *******************************)
\* Types; a command past its write owns exactly one temporary file.
CredentialTypeOK ==
    /\ credentialDirectory \in {"missing", "private", "insecure"}
    /\ \A n \in CredentialNames : entry[n].kind \in {"none", "file", "exposed", "link", "directory"}
    /\ \A p \in CredentialCommands : process[p].step \in {"write", "rename"} => Cardinality(mine(p)) = 1
    /\ ran \in 0..MaxCredentialCommands /\ mishaps \in 0..MaxMishaps

\* A managed Runtime holds only values that were given, whole, for that very
\* name, however commands interleaved and wherever a process or the machine
\* died (writeRuntimeHomeCredential: "either the previous or the new complete
\* file"), and never one behind a link or readable by others.
LoadedIsWhole ==
    snapshot.source = "runtime_home" =>
        \A n \in CredentialNames :
            snapshot.credentials[n].state = "present" => snapshot.credentials[n].value \in given[n]

\* Sources never mix (loadProviderCredentials): a managed Runtime has nothing
\* from its environment, a foreground one nothing from the directory, and one
\* with an unknown source nothing at all.
SourcesNeverMix ==
    \A n \in CredentialNames :
        snapshot.credentials[n].state = "present" =>
            (snapshot.source = "none" /\ snapshot.credentials[n].value = "ambient" /\ snapshot.ambient)
              \/ (snapshot.source = "runtime_home" /\ snapshot.credentials[n].value # "ambient")

\* A temporary file belongs to a command that is still running, or to one
\* that was killed: an answered command leaves none.
NoTemporaryLeft ==
    \A t \in temporaries : t.by # "nobody" => process[t.by].step \in {"write", "rename"}

\* A value reported stored is what a managed Runtime would load next, until
\* the next command for the name, an edit or a power loss.
StoredIsLoaded ==
    \A n \in CredentialNames :
        stored[n] # "unknown" => entry[n].kind = "file" /\ entry[n].holds = stored[n]

\* What holds of the credential files and of what a Runtime loads from them.
CredentialSafety ==
    CredentialTypeOK /\ LoadedIsWhole /\ SourcesNeverMix /\ NoTemporaryLeft /\ StoredIsLoaded
=============================================================================
