-------------------------- MODULE VaultRegistration --------------------------
(* How directories become vaults while the server runs: the preview and the confirmed
   registration of http/vault_registration.rs, the new directories of its
   directories.rs, and the form of http/onboarding.rs.

   A registration prepares a directory, a policy, an index and a watcher step by step,
   while other programs work in the same directories, the command line rewrites the
   configuration, sessions are revoked and receipts grow old.  It becomes true by one
   rename, that of the configuration, and is then published to the running server; a
   registration that ends before takes back what it made, and nothing else.

   One mutex admits one of these requests at a time (the others are turned away, which
   changes nothing).  A vault stands for its slug and its path; a file's version stands
   for its inode, bytes and stamp, so every write makes a new one. *)
EXTENDS Naturals, FiniteSets

CONSTANTS
  Vault,
  Dir,        \* identities of directories
  Session,    \* administrators' sessions
  Token,      \* the receipts the server keeps at a time
  MaxRequests, MaxWrites, \* bounds: requests, and what others do
  None

ASSUME NoneAssumption == None \notin Vault \cup Dir \cup Session \cup Token

ASSUME BoundsAssumption == MaxRequests \in Nat /\ MaxWrites \in Nat

VARIABLES
  config,     \* server.toml: the vaults it registers, and its version
  dir,        \* per vault, the directory at its path
  policy,     \* per directory, the version of access.toml (0: none)
  note,       \* per directory, the version of its notes (0: none)
  live,       \* per vault, what the running server serves
  watch,      \* per vault, the directory a watcher of the server watches
  kernel,     \* vaults with an event on its way to that watcher
  signal,     \* vaults the maintenance loop was told of
  receipt,    \* previews that may be confirmed
  expired,    \* receipts past their time
  revoked,    \* sessions that ended
  req,        \* the request that holds the mutex
  pc,         \* its next step
  root, made, \* its directory, and whether it made it
  mine,       \* the policy it wrote (0: none)
  seen,       \* what it read: configuration, policy, prepared policy, notes, watched directory
  staged,     \* events of its own watcher: on their way ("kernel"), arrived ("signal")
  committed, answer, \* what became of it
  requests, writes, \* how many requests and how many acts of others so far
  theirs,     \* history: what others put into each directory
  trampled,   \* history: directories where the form wrote over that or removed it
  missed,     \* history: vaults published with the stamp of a policy later than their own
  late        \* history: what others did after the last look of a registration

files == <<dir, policy, note>>
server == <<live, watch, kernel, signal>>
history == <<theirs, trampled, missed, late>>
world == <<expired, revoked, requests, writes, history>>
Version == 0..(MaxRequests + MaxWrites)
Ours == requests                    \* the version that a request writes
Theirs == MaxRequests + writes + 1  \* the version that others write next
Slot == Dir \cup {None}

own == <<root, made, mine>>
locals == <<req, own, seen, staged, committed>>
op == <<locals, pc, answer>>
vars == <<config, files, server, receipt, op, world>>

NoRequest == [kind |-> "none", mode |-> "existing", who |-> None, vault |-> None, token |-> None]
Nothing == [entries |-> {}, config |-> 0, before |-> 0, prepared |-> 0, index |-> 0,
            watch |-> None]

Request == [kind : {"preview", "confirm", "mkdir", "form"}, mode : {"existing", "new"},
            who : Session, vault : Vault, token : Token \cup {None}]
Seen == [entries : SUBSET Vault, config : Version, before : Version, prepared : Version,
         index : Version, watch : Slot]
Forming == {"save_policy", "save_config", "stamp", "remove_root"}
Pc == {"rest", "config", "root", "probe", "receipt", "make", "verify", "inspect", "enroll",
       "enumerate", "policy", "prepared", "index", "authorize", "commit", "publish",
       "policy_back", "root_back", "answer", "answered", "start"} \cup Forming
Receipt == [who : Session, vault : Vault, mode : {"existing", "new"}, config : Version,
            root : Slot, before : Version]

Serving == [policy : Version, source : Version, index : Version]
ASSUME ServingAssumption == None \notin Serving

(* Types; two vaults are never one directory, and a preview of an existing directory
   holds it. *)
RegistrationTypeOK ==
  /\ config \in [entries : SUBSET Vault, version : Version]
  /\ dir \in [Vault -> Slot] /\ policy \in [Dir -> Version] /\ note \in [Dir -> Version]
  /\ live \in [Vault -> Serving \cup {None}]
  /\ watch \in [Vault -> Slot] /\ kernel \subseteq Vault /\ signal \subseteq Vault
  /\ receipt \in [Token -> Receipt \cup {None}]
  /\ expired \subseteq Token /\ revoked \subseteq Session
  /\ req \in Request \cup {NoRequest} /\ pc \in Pc /\ seen \in Seen
  /\ root \in Slot /\ made \in BOOLEAN /\ mine \in 0..MaxRequests
  /\ staged \subseteq {"kernel", "signal"} /\ committed \in BOOLEAN
  /\ answer \in {"none", "ok", "conflict", "failed", "gone", "residual"}
  /\ requests \in 0..MaxRequests /\ writes \in 0..MaxWrites
  /\ theirs \in [Dir -> [policy : Version, note : Version]]
  /\ trampled \subseteq Dir /\ missed \subseteq Vault /\ late \subseteq {"dir", "config"}
  /\ \A v, w \in Vault : dir[v] = dir[w] /\ dir[v] # None => v = w
  /\ \A t \in Token : receipt[t] # None =>
       (receipt[t].mode = "existing" <=> receipt[t].root # None)

Init ==
  /\ config = [entries |-> {}, version |-> 0]
  /\ dir \in {f \in [Vault -> Slot] : \A v, w \in Vault : f[v] = f[w] /\ f[v] # None => v = w}
  /\ policy = [d \in Dir |-> 0] /\ note = [d \in Dir |-> 0]
  /\ live = [v \in Vault |-> None] /\ watch = [v \in Vault |-> None]
  /\ kernel = {} /\ signal = {}
  /\ receipt = [t \in Token |-> None] /\ expired = {} /\ revoked = {}
  /\ req = NoRequest /\ pc = "rest" /\ answer = "none" /\ committed = FALSE
  /\ root = None /\ made = FALSE /\ mine = 0 /\ seen = Nothing /\ staged = {}
  /\ requests = 0 /\ writes = 0
  /\ theirs = [d \in Dir |-> [policy |-> 0, note |-> 0]]
  /\ trampled = {} /\ missed = {} /\ late = {}

Unused(d) ==
  /\ policy[d] = 0 /\ note[d] = 0 /\ root # d /\ seen.watch # d
  /\ \A v \in Vault : dir[v] # d /\ watch[v] # d
  /\ \A t \in Token : receipt[t] # None => receipt[t].root # d

PolicyAt(d) == IF d = None THEN 0 ELSE policy[d]
NoteAt(d) == IF d = None THEN 0 ELSE note[d]

-----------------------------------------------------------------------------
(* Requests.  `Refuse` ends one: what it made is taken back, and it is answered. *)
At(step) == pc = step
Go(step) == pc' = step /\ UNCHANGED <<locals, answer>>
See(step, now) == pc' = step /\ seen' = now /\ UNCHANGED <<req, own, staged, committed, answer>>
Answered(step, what) == pc' = step /\ answer' = what /\ UNCHANGED locals
Refuse(what) == Answered("policy_back", what)
Idle(step) ==
  /\ req' = NoRequest /\ pc' = step /\ answer' = "none" /\ committed' = FALSE
  /\ root' = None /\ made' = FALSE /\ mine' = 0 /\ seen' = Nothing /\ staged' = {}
Rest == Idle("rest")
Authorized == req.who \notin revoked

Begin(kind, mode, who, v, t) ==
  /\ pc = "rest" /\ who \notin revoked /\ requests < MaxRequests
  /\ kind = "mkdir" => mode = "new"
  /\ kind = "confirm" <=> t # None
  /\ req' = [kind |-> kind, mode |-> mode, who |-> who, vault |-> v, token |-> t]
  /\ pc' = "config" /\ requests' = requests + 1
  /\ UNCHANGED <<own, seen, staged, committed, answer>>
  /\ UNCHANGED <<config, files, server, receipt, expired, revoked, writes, history>>

Running == {v \in Vault : live[v] # None}

(* checked_config: the file registers what the server runs, and not this vault. *)
ReadConfig ==
  /\ At("config") /\ Authorized
  /\ IF config.entries = Running /\ req.vault \notin config.entries
       THEN See("root", [seen EXCEPT !.entries = config.entries, !.config = config.version])
       ELSE Refuse("conflict")
  /\ UNCHANGED <<config, files, server, receipt, world>>

Found(d) ==
  /\ root' = d /\ seen' = [seen EXCEPT !.before = PolicyAt(d)]
  /\ pc' = CASE req.kind = "preview" -> "probe"
             [] req.kind = "confirm" -> "receipt"
             [] req.kind = "mkdir" -> "make"
  /\ UNCHANGED <<req, made, mine, staged, committed, answer>>

(* Mutant of ReadRoot: the directory is taken as it is found. *)
ReadRootUnchecked ==
  /\ At("root") /\ Found(dir[req.vault])
  /\ UNCHANGED <<config, files, server, receipt, world>>

(* registration_pin and layout: the directory is there, or, to be made, is not. *)
ReadRoot ==
  /\ At("root")
  /\ IF req.mode = "existing" <=> dir[req.vault] # None
       THEN Found(dir[req.vault]) ELSE Refuse("conflict")
  /\ UNCHANGED <<config, files, server, receipt, world>>

Intent == [who |-> req.who, vault |-> req.vault, mode |-> req.mode, config |-> seen.config,
           root |-> root, before |-> seen.before]

(* The end of a preview: nothing moved during the probes, and there is room. *)
IssueReceipt ==
  LET free == {t \in Token : receipt[t] = None \/ t \in expired} IN
  /\ At("probe") /\ Authorized
  /\ IF dir[req.vault] # root \/ PolicyAt(root) # seen.before \/ free = {}
       THEN /\ Refuse(IF free = {} THEN "failed" ELSE "conflict")
            /\ UNCHANGED <<receipt, expired>>
       ELSE /\ \E t \in free : receipt' = [u \in Token |-> IF u = t THEN Intent
                                             ELSE IF u \in expired THEN None ELSE receipt[u]]
            /\ expired' = {} /\ Answered("answer", "ok")
  /\ UNCHANGED <<config, files, server, revoked, requests, writes, history>>

(* A receipt is good once, for what was previewed and by whom. *)
TakeReceipt ==
  /\ At("receipt")
  /\ IF receipt[req.token] = Intent /\ req.token \notin expired
       THEN Go("make") ELSE Refuse("conflict")
  /\ receipt' = [t \in Token |-> IF t = req.token \/ t \in expired THEN None ELSE receipt[t]]
  /\ expired' = expired \cap {req.token}
  /\ UNCHANGED <<config, files, server, revoked, requests, writes, history>>

(* OwnedDirectory::create.  mkdir looks at the configuration again, under the lock
   that a revocation needs. *)
MakeRoot ==
  /\ At("make") /\ Authorized
  /\ IF req.mode = "existing" THEN Go("inspect") /\ UNCHANGED dir
     ELSE IF dir[req.vault] # None \/ (req.kind = "mkdir" /\ config.version # seen.config)
       THEN Refuse("conflict") /\ UNCHANGED dir
     ELSE \E d \in {e \in Dir : Unused(e)} :
            /\ dir' = [dir EXCEPT ![req.vault] = d] /\ root' = d /\ made' = TRUE
            /\ pc' = IF req.kind = "mkdir" THEN "verify" ELSE "inspect"
            /\ UNCHANGED <<req, mine, seen, staged, committed, answer>>
  /\ UNCHANGED <<config, policy, note, server, receipt, world>>

(* The rest of mkdir: the directory is still the one that was made. *)
VerifyRoot ==
  /\ At("verify") /\ Authorized
  /\ IF dir[req.vault] = root /\ config.version = seen.config
       THEN Answered("answer", "ok") ELSE Refuse("conflict")
  /\ UNCHANGED <<config, files, server, receipt, world>>

InspectRoot ==
  /\ At("inspect") /\ Authorized
  /\ IF req.mode = "existing" /\ policy[root] # seen.before THEN Refuse("conflict")
     ELSE See("enroll", [seen EXCEPT !.before = policy[root]])
  /\ UNCHANGED <<config, files, server, receipt, world>>

(* watch_for_vault, with a signal of its own until the vault is published. *)
Enroll ==
  /\ At("enroll")
  /\ IF dir[req.vault] = None THEN Refuse("failed")
     ELSE See("enumerate", [seen EXCEPT !.watch = dir[req.vault]])
  /\ UNCHANGED <<config, files, server, receipt, world>>

Enumerate ==
  /\ At("enumerate") /\ Authorized
  /\ See("policy", [seen EXCEPT !.index = note[root]])
  /\ UNCHANGED <<config, files, server, receipt, world>>

WritePrepared ==
  /\ policy' = [policy EXCEPT ![root] = Ours] /\ mine' = Ours /\ pc' = "prepared"
  /\ UNCHANGED <<req, root, made, seen, staged, committed, answer>>

(* Mutant of InstallPolicy: what came in since the inspection is replaced. *)
InstallPolicyOver ==
  /\ At("policy")
  /\ IF seen.before # 0 THEN Go("prepared") /\ UNCHANGED policy
     ELSE Authorized /\ WritePrepared
  /\ UNCHANGED <<config, dir, note, server, receipt, world>>

(* A policy is written where there is none, and never over one. *)
InstallPolicy ==
  /\ At("policy")
  /\ IF seen.before # 0 THEN Go("prepared") /\ UNCHANGED policy
     ELSE /\ Authorized
          /\ IF policy[root] = 0 THEN WritePrepared ELSE Refuse("conflict") /\ UNCHANGED policy
  /\ UNCHANGED <<config, dir, note, server, receipt, world>>

Parsed == IF mine # 0 THEN mine ELSE seen.before

(* Mutant of CheckPrepared: the stamp of whatever is there by now. *)
CheckPreparedAny ==
  /\ At("prepared") /\ See("index", [seen EXCEPT !.prepared = policy[root]])
  /\ UNCHANGED <<config, files, server, receipt, world>>

(* The policy on disk is the one that was parsed or written. *)
CheckPrepared ==
  /\ At("prepared")
  /\ IF policy[root] # Parsed THEN Refuse("conflict")
     ELSE See("index", [seen EXCEPT !.prepared = policy[root]])
  /\ UNCHANGED <<config, files, server, receipt, world>>

(* initial_index: the notes that were listed, as they are now. *)
IndexNotes ==
  /\ At("index")
  /\ IF seen.index # 0 /\ note[root] = 0 THEN Refuse("failed")
     ELSE See("authorize", [seen EXCEPT !.index = IF @ = 0 THEN 0 ELSE note[root]])
  /\ UNCHANGED <<config, files, server, receipt, world>>

(* Mutant of Authorize: the directory is not looked at again. *)
AuthorizeOldRoot ==
  /\ At("authorize") /\ Authorized
  /\ IF live[req.vault] = None /\ config.version = seen.config /\ req.token \notin expired
       THEN Go("commit") ELSE Refuse("conflict")
  /\ late' = {} /\ UNCHANGED <<theirs, trampled, missed>>
  /\ UNCHANGED <<config, files, server, receipt, expired, revoked, requests, writes>>

(* The last look, under the locks of publication and of authentication. *)
Authorize ==
  /\ At("authorize") /\ Authorized
  /\ IF /\ live[req.vault] = None /\ config.version = seen.config
        /\ dir[req.vault] = root /\ policy[root] = seen.prepared
        /\ req.token \notin expired
       THEN Go("commit") ELSE Refuse("conflict")
  /\ late' = {} /\ UNCHANGED <<theirs, trampled, missed>>
  /\ UNCHANGED <<config, files, server, receipt, expired, revoked, requests, writes>>

(* commit_config, after one more look at the directory it still holds open: the entries
   as they were read, with the new one, replace whatever the file says by now.  (That
   look and the rename are one step.) *)
Commit ==
  /\ At("commit")
  /\ IF policy[root] # seen.prepared \/ req.token \in expired
       THEN Refuse("conflict") /\ UNCHANGED config
       ELSE /\ config' = [entries |-> seen.entries \cup {req.vault}, version |-> Ours]
            /\ pc' = "publish" /\ committed' = TRUE
            /\ UNCHANGED <<req, own, seen, staged, answer>>
  /\ UNCHANGED <<files, server, receipt, world>>

Installed ==
  /\ live' = [live EXCEPT ![req.vault] =
       [policy |-> Parsed, source |-> seen.prepared, index |-> seen.index]]
  /\ watch' = [watch EXCEPT ![req.vault] = IF @ = None THEN seen.watch ELSE @]
  /\ kernel' = IF "kernel" \in staged THEN kernel \cup {req.vault} ELSE kernel

(* Mutant of Publish: the staged events are dropped with their signal. *)
PublishUnstaged ==
  /\ At("publish") /\ Installed /\ Answered("answer", "ok")
  /\ UNCHANGED <<config, files, signal, receipt, world>>

(* COMMITTED: the live server takes what was prepared, and the staged events. *)
Publish ==
  /\ At("publish") /\ Installed /\ Answered("answer", "ok")
  /\ signal' = IF "signal" \in staged THEN signal \cup {req.vault} ELSE signal
  /\ UNCHANGED <<config, files, receipt, world>>

Preparing == {"config", "root", "probe", "receipt", "make", "verify", "inspect", "enroll",
              "enumerate", "policy", "prepared", "index", "authorize", "commit"}

(* The session turns out to be gone, or a call fails, or the requester left. *)
Denied ==
  /\ pc \in {"config", "probe", "make", "verify", "inspect", "enumerate", "policy", "authorize"}
  /\ At("policy") => seen.before = 0
  /\ ~Authorized /\ Refuse("gone")
  /\ UNCHANGED <<config, files, server, receipt, world>>
Fails ==
  /\ pc \in Preparing /\ Refuse("failed")
  /\ UNCHANGED <<config, files, server, receipt, world>>

(* Mutant of PolicyBack: forgotten. *)
PolicyBackSkipped ==
  /\ At("policy_back") /\ Go("root_back")
  /\ UNCHANGED <<config, files, server, receipt, world>>

(* OwnedFile::cleanup: only the file that was written, as it was written. *)
PolicyBack ==
  /\ At("policy_back")
  /\ IF mine # 0 /\ policy[root] = mine
       THEN policy' = [policy EXCEPT ![root] = 0] ELSE UNCHANGED policy
  /\ Answered("root_back",
       IF mine # 0 /\ policy[root] \notin {0, mine} THEN "residual" ELSE answer)
  /\ UNCHANGED <<config, dir, note, server, receipt, world>>

(* OwnedDirectory::cleanup: only the directory that was made, and only if empty.
   mkdir promises a rollback to a requester without rights, to nobody else. *)
RootBack ==
  LET cleaned == dir[req.vault] = root /\ policy[root] = 0 /\ note[root] = 0 IN
  /\ At("root_back")
  /\ dir' = IF made /\ cleaned THEN [dir EXCEPT ![req.vault] = None] ELSE dir
  /\ Answered("answer",
       IF made /\ (~cleaned \/ (req.kind = "mkdir" /\ answer # "gone"))
       THEN "residual" ELSE answer)
  /\ UNCHANGED <<config, policy, note, server, receipt, world>>

(* The answer, and a last look at the session, whatever was done. *)
Answer ==
  /\ At("answer") /\ Answered("answered", IF Authorized THEN answer ELSE "gone")
  /\ UNCHANGED <<config, files, server, receipt, world>>
Finish ==
  /\ At("answered") /\ Rest
  /\ UNCHANGED <<config, files, server, receipt, world>>

(* register_vault of the form: a directory with a policy, published without an index
   or a watcher, by path all along.  It holds the locks of what is live, so that neither
   a reload nor the maintenance comes between; it does not compare the configuration
   with what is live, nor look at it again. *)
Form(who, v) ==
  /\ pc = "rest" /\ who \notin revoked /\ requests < MaxRequests
  /\ live[v] = None /\ v \notin config.entries /\ dir[v] = None
  /\ \E d \in {e \in Dir : Unused(e)} : dir' = [dir EXCEPT ![v] = d]
  /\ req' = [kind |-> "form", mode |-> "new", who |-> who, vault |-> v, token |-> None]
  /\ seen' = [seen EXCEPT !.entries = config.entries, !.config = config.version]
  /\ pc' = "save_policy" /\ requests' = requests + 1
  /\ UNCHANGED <<own, staged, committed, answer>>
  /\ UNCHANGED <<config, policy, note, server, receipt, expired, revoked, writes, history>>

Foreign(d) == theirs[d] # [policy |-> 0, note |-> 0]

(* AccessFile::save, into the directory that is there by now. *)
FormPolicy ==
  LET d == dir[req.vault] IN
  /\ At("save_policy") /\ d # None
  /\ policy' = [policy EXCEPT ![d] = Ours] /\ mine' = Ours /\ pc' = "save_config"
  /\ trampled' = IF Foreign(d) THEN trampled \cup {d} ELSE trampled
  /\ UNCHANGED <<req, root, made, seen, staged, committed, answer>>
  /\ UNCHANGED <<config, dir, note, server, receipt>>
  /\ UNCHANGED <<expired, revoked, requests, writes, theirs, missed, late>>

(* save_config: the entries that were read, with the new one. *)
FormConfig ==
  /\ At("save_config") /\ Go("stamp")
  /\ config' = [entries |-> seen.entries \cup {req.vault}, version |-> Ours]
  /\ UNCHANGED <<files, server, receipt, world>>

(* The policy that was written goes live with the stamp of the file as it is now. *)
FormPublish ==
  LET v == req.vault now == PolicyAt(dir[req.vault]) IN
  /\ At("stamp") /\ Rest
  /\ live' = [live EXCEPT ![v] = [policy |-> mine, source |-> now, index |-> 0]]
  /\ missed' = IF now # mine THEN missed \cup {v} ELSE missed
  /\ UNCHANGED <<config, files, watch, kernel, signal, receipt>>
  /\ UNCHANGED <<expired, revoked, requests, writes, theirs, trampled, late>>

FormFails ==
  /\ pc \in {"save_policy", "save_config"} /\ Go("remove_root")
  /\ UNCHANGED <<config, files, server, receipt, world>>

(* remove_dir_all of the path, whatever is in it by now; it may fail half way. *)
FormBack ==
  LET d == dir[req.vault] IN
  /\ At("remove_root") /\ Rest
  /\ \/ UNCHANGED <<files, kernel, trampled>>
     \/ \E gone \in SUBSET {"policy", "note"} :
          /\ d # None
          /\ policy' = IF "policy" \in gone THEN [policy EXCEPT ![d] = 0] ELSE policy
          /\ note' = IF "note" \in gone THEN [note EXCEPT ![d] = 0] ELSE note
          /\ \/ UNCHANGED dir
             \/ policy'[d] = 0 /\ note'[d] = 0 /\ dir' = [dir EXCEPT ![req.vault] = None]
          /\ kernel' = kernel \cup {w \in Vault : watch[w] = d}
          /\ trampled' = IF Foreign(d) THEN trampled \cup {d} ELSE trampled
  /\ UNCHANGED <<config, live, watch, signal, receipt>>
  /\ UNCHANGED <<expired, revoked, requests, writes, theirs, missed, late>>

-----------------------------------------------------------------------------
(* The running server. *)

(* reload_access: a policy whose stamp moved is read again, a missing one denies. *)
Reload(v) ==
  /\ pc \notin Forming \cup {"start"}
  /\ live[v] # None /\ live[v].source # PolicyAt(dir[v])
  /\ live' = [live EXCEPT ![v].policy = PolicyAt(dir[v]), ![v].source = PolicyAt(dir[v])]
  /\ missed' = missed \ {v}
  /\ UNCHANGED <<config, files, watch, kernel, signal, receipt, op>>
  /\ UNCHANGED <<expired, revoked, requests, writes, theirs, trampled, late>>

(* The watcher's thread hands an event on. *)
Deliver(v) ==
  /\ v \in kernel /\ kernel' = kernel \ {v} /\ signal' = signal \cup {v}
  /\ UNCHANGED <<config, files, live, watch, receipt, op, world>>
DeliverStaged ==
  /\ "kernel" \in staged /\ staged' = {"signal"}
  /\ UNCHANGED <<req, own, seen, committed, pc, answer>>
  /\ UNCHANGED <<config, files, server, receipt, world>>

(* Maintenance takes the signal; an event for a vault that is not live is lost. *)
Maintain ==
  /\ pc \notin Forming \cup {"start"}
  /\ signal # {} /\ signal' = {}
  /\ live' = [v \in Vault |-> IF v \in signal /\ live[v] # None
                              THEN [live[v] EXCEPT !.index = NoteAt(dir[v])] ELSE live[v]]
  /\ UNCHANGED <<config, files, watch, kernel, receipt, op, world>>

(* The server dies and starts from the configuration, if it can: it loads the policies,
   and takes the stamps of their files afterwards (authenticated_with_audit). *)
Crash ==
  /\ \A v \in config.entries : PolicyAt(dir[v]) # 0
  /\ pc # "rest" \/ config.entries # Running
  /\ live' = [v \in Vault |-> IF v \in config.entries
       THEN [policy |-> PolicyAt(dir[v]), source |-> PolicyAt(dir[v]), index |-> 0]
       ELSE None]
  /\ watch' = [v \in Vault |-> None] /\ kernel' = {} /\ signal' = {}
  /\ receipt' = [t \in Token |-> None] /\ expired' = {} /\ missed' = {}
  /\ Idle("start")
  /\ UNCHANGED <<config, files, revoked, requests, writes, theirs, trampled, late>>

(* The stamps, the index and the watchers of the vaults it serves. *)
Started ==
  /\ At("start") /\ Go("rest")
  /\ live' = [v \in Vault |-> IF v \in Running
       THEN [policy |-> live[v].policy, source |-> PolicyAt(dir[v]), index |-> NoteAt(dir[v])]
       ELSE None]
  /\ watch' = [v \in Vault |-> IF v \in Running THEN dir[v] ELSE None]
  /\ missed' = {v \in Running : live[v].policy # PolicyAt(dir[v])}
  /\ UNCHANGED <<config, files, kernel, signal, receipt>>
  /\ UNCHANGED <<expired, revoked, requests, writes, theirs, trampled, late>>

-----------------------------------------------------------------------------
(* Others: time, administrators, and programs that know nothing of the server. *)
Expire(t) ==
  /\ t \notin expired
  /\ receipt[t] # None \/ req.token = t
  /\ expired' = expired \cup {t}
  /\ UNCHANGED <<config, files, server, receipt, op, revoked, requests, writes, history>>

Revoke(s) ==
  /\ s \notin revoked /\ pc \notin {"commit", "publish"}
  /\ revoked' = revoked \cup {s}
  /\ UNCHANGED <<config, files, server, receipt, op, expired, requests, writes, history>>

Act ==
  /\ writes < MaxWrites /\ writes' = writes + 1
  /\ UNCHANGED <<expired, revoked, requests, trampled, missed>>

(* What comes between the checks of Authorize and the rename of Commit. *)
After(what) == late' = IF At("commit") THEN late \cup {what} ELSE late

WritePolicy(v) ==
  /\ Act /\ dir[v] # None
  /\ policy' = [policy EXCEPT ![dir[v]] = Theirs]
  /\ theirs' = [theirs EXCEPT ![dir[v]].policy = Theirs]
  /\ UNCHANGED <<config, dir, note, server, receipt, op, late>>
RemovePolicy(v) ==
  /\ Act /\ PolicyAt(dir[v]) # 0
  /\ policy' = [policy EXCEPT ![dir[v]] = 0]
  /\ theirs' = [theirs EXCEPT ![dir[v]].policy = 0]
  /\ UNCHANGED <<config, dir, note, server, receipt, op, late>>

(* A note is written or removed: the watchers of its directory have an event. *)
WriteNote(v, version) ==
  /\ Act /\ dir[v] # None /\ note[dir[v]] # version
  /\ note' = [note EXCEPT ![dir[v]] = version]
  /\ theirs' = [theirs EXCEPT ![dir[v]].note = version]
  /\ kernel' = kernel \cup {w \in Vault : watch[w] = dir[v]}
  /\ staged' = IF seen.watch = dir[v] THEN staged \cup {"kernel"} ELSE staged
  /\ UNCHANGED <<config, dir, policy, live, watch, signal, receipt>>
  /\ UNCHANGED <<req, own, seen, committed, pc, answer, late>>

(* A directory is made, or moved away. *)
MoveRoot(v, d) ==
  /\ Act /\ After("dir") /\ live[v] = None
  /\ IF dir[v] = None THEN d # None /\ Unused(d) ELSE d = None
  /\ dir' = [dir EXCEPT ![v] = d]
  /\ UNCHANGED <<config, policy, note, server, receipt, op, theirs>>

(* `vault create` and `vault remove` of the command line. *)
CliCreate(v) ==
  /\ Act /\ After("config") /\ v \notin config.entries /\ dir[v] # None
  /\ policy' = IF policy[dir[v]] = 0 THEN [policy EXCEPT ![dir[v]] = Theirs] ELSE policy
  /\ theirs' = IF policy[dir[v]] = 0 THEN [theirs EXCEPT ![dir[v]].policy = Theirs] ELSE theirs
  /\ config' = [entries |-> config.entries \cup {v}, version |-> Theirs]
  /\ UNCHANGED <<dir, note, server, receipt, op>>
CliRemove(v) ==
  /\ Act /\ After("config") /\ v \in config.entries
  /\ config' = [entries |-> config.entries \ {v}, version |-> Theirs]
  /\ UNCHANGED <<files, server, receipt, op, theirs>>

Step ==
  \/ ReadConfig \/ ReadRoot \/ IssueReceipt \/ TakeReceipt \/ MakeRoot \/ VerifyRoot
  \/ InspectRoot \/ Enroll \/ Enumerate \/ InstallPolicy \/ CheckPrepared \/ IndexNotes
  \/ Authorize \/ Commit \/ Publish \/ Denied \/ Fails \/ PolicyBack \/ RootBack
  \/ Answer \/ Finish \/ DeliverStaged

FormStep == FormPolicy \/ FormConfig \/ FormPublish \/ FormFails \/ FormBack

Next ==
  \/ Step \/ FormStep \/ Maintain \/ Crash \/ Started
  \/ \E v \in Vault, who \in Session :
       \/ \E kind \in {"preview", "mkdir"}, mode \in {"existing", "new"} :
            Begin(kind, mode, who, v, None)
       \/ \E mode \in {"existing", "new"}, t \in Token : Begin("confirm", mode, who, v, t)
       \/ Form(who, v)
  \/ \E v \in Vault :
       \/ Reload(v) \/ Deliver(v)
       \/ WritePolicy(v) \/ RemovePolicy(v) \/ CliCreate(v) \/ CliRemove(v)
       \/ \E version \in {0, Theirs} : WriteNote(v, version)
       \/ \E d \in Slot : MoveRoot(v, d)
  \/ \E t \in Token : Expire(t)
  \/ \E s \in Session : Revoke(s)

Spec == Init /\ [][Next]_vars
-----------------------------------------------------------------------------
(* A vault that a confirmed registration puts into the configuration has the policy that
   was prepared, for a session that still may and a receipt that is still good, and is not
   served already, however the steps interleave with the others (execute).  It is the
   directory that was previewed, and no entry of another program is lost, unless that
   changed after the last look: nothing holds the directory or the file then. *)
CommitsWhole ==
  [][At("commit") /\ ~committed /\ committed' =>
       /\ policy[root] = seen.prepared /\ seen.prepared # 0
       /\ Authorized /\ req.token \notin expired /\ req.vault \notin Running
       /\ dir[req.vault] = root \/ "dir" \in late
       /\ config'.entries = config.entries \cup {req.vault} \/ "config" \in late]_vars

(* A live policy with the stamp of the file is what the file says: no edit made while a
   confirmed registration prepares and publishes is taken for the prepared policy, nor is
   one made while the server reloads (execute, reload_access).  The form and the start of
   the server take the stamp after the policy; an edit between the two is `missed`, until
   the file changes again. *)
PolicyFollows ==
  \A v \in Running \ missed :
    live[v].source = PolicyAt(dir[v]) => live[v].policy = PolicyAt(dir[v])

(* A note that the index of a watched vault does not have as it is is on its way to
   it: no event falls between enumeration, enrolment and publication (watch_groups). *)
IndexCatchable ==
  \A v \in Running : watch[v] # None /\ watch[v] = dir[v] /\ live[v].index # note[dir[v]]
    => v \in kernel \cup signal

(* What others wrote into a directory stays until they change it themselves, however a
   confirmed registration or a mkdir ends (OwnedFile, OwnedDirectory).  Only the form writes
   over it or removes it, in the directory it made or what came to its path: `trampled`. *)
ForeignKept ==
  \A d \in Dir \ trampled :
    /\ theirs[d].policy # 0 => policy[d] = theirs[d].policy
    /\ note[d] = theirs[d].note

(* Who is told of a conflict or a failure finds neither an entry in the configuration
   nor a directory or a policy of that request (execute, mkdir). *)
RefusedLeavesNothing ==
  At("answered") /\ answer \in {"conflict", "failed"} =>
    /\ ~committed
    /\ mine # 0 => policy[root] # mine
    /\ made => dir[req.vault] # root
=============================================================================
