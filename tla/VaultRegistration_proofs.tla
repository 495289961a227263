----------------------- MODULE VaultRegistration_proofs -----------------------
(* Theorems about VaultRegistration, for every set of vaults, directories, sessions and
   receipts and every bound. *)
EXTENDS VaultRegistration, TLAPS

(* What a request has at which step. *)
Holding == {"verify", "inspect", "enroll", "enumerate", "policy", "prepared", "index",
            "authorize", "commit", "publish"}
Early == {"rest", "start", "config", "root", "probe", "receipt", "make", "verify", "inspect",
          "enroll", "enumerate", "policy"}

Idling == {"rest", "start"}
HandlerShape ==
  /\ pc \in Idling => req = NoRequest
  /\ pc \notin Idling => req \in Request /\ requests > 0 /\ (req.kind = "form" <=> pc \in Forming)
  /\ pc \in Holding \/ made \/ (mine # 0 /\ pc \notin Forming) => root \in Dir
  /\ pc \in {"probe", "receipt", "make"} => (req.mode = "existing" <=> root # None)
  /\ pc \in Early => mine = 0
  /\ pc \in Idling \cup Forming \cup {"config", "root", "probe", "receipt", "make"} => ~made
  /\ pc \in Idling \cup {"config"} => root = None
  /\ pc \notin Idling => (req.kind = "confirm" <=> req.token \in Token)
  /\ pc = "receipt" => req.kind = "confirm"

TypeInv == RegistrationTypeOK /\ HandlerShape

(* The versions that are written are versions. *)
LEMMA Versions ==
  /\ 0 \in Version
  /\ requests \in 0..MaxRequests => Ours \in Version
  /\ requests \in 0..MaxRequests /\ requests < MaxRequests => requests + 1 \in Version
  /\ writes \in 0..MaxWrites /\ writes < MaxWrites => Theirs \in Version
  BY BoundsAssumption DEF Version, Ours, Theirs

(* A request may note anything it can read. *)
LEMMA SeenUpdates ==
  ASSUME NEW s \in Seen, NEW n \in Version, NEW d \in Slot
  PROVE  /\ [s EXCEPT !.before = n] \in Seen
         /\ [s EXCEPT !.prepared = n] \in Seen
         /\ [s EXCEPT !.index = n] \in Seen
         /\ [s EXCEPT !.watch = d] \in Seen
         /\ s.before \in Version /\ s.prepared \in Version /\ s.index \in Version
         /\ s.config \in Version /\ s.watch \in Slot
  BY DEF Seen

(* Among it the configuration. *)
LEMMA SeenConfig ==
  ASSUME seen \in Seen, config \in [entries : SUBSET Vault, version : Version]
  PROVE  [seen EXCEPT !.entries = config.entries, !.config = config.version] \in Seen
<1> DEFINE e == config.entries n == config.version
<1>1. e \in SUBSET Vault /\ n \in Version
  OBVIOUS
<1>2. [seen EXCEPT !.entries = e, !.config = n] \in Seen
  <2> HIDE DEF e, n
  <2> QED BY <1>1 DEF Seen
<1> QED BY <1>2
LEMMA SeenEntries ==
  ASSUME NEW s \in Seen
  PROVE  s.entries \in SUBSET Vault
  BY DEF Seen

(* A look at a path gives a version. *)
LEMMA Looked ==
  ASSUME policy \in [Dir -> Version], note \in [Dir -> Version], NEW d \in Slot
  PROVE  PolicyAt(d) \in Version /\ NoteAt(d) \in Version
  BY Versions DEF Slot, PolicyAt, NoteAt

(* The parts of a request. *)
LEMMA Requested ==
  ASSUME req \in Request
  PROVE  /\ req.vault \in Vault /\ req.who \in Session
         /\ req.kind \in {"preview", "confirm", "mkdir", "form"} /\ req.mode \in {"existing", "new"}
         /\ req.token \in Token \cup {None}
  BY DEF Request

(* Every step of the request under way keeps the types. *)
LEMMA TypeStep == TypeInv /\ Step => TypeInv'
<1> SUFFICES ASSUME TypeInv, Step PROVE TypeInv'
  OBVIOUS
<1> USE NoneAssumption, BoundsAssumption
<1> USE DEF TypeInv, RegistrationTypeOK, HandlerShape, Idling, Forming, Holding, Early, At, Pc,
        Serving, files, server, world, history, own, locals
<1>1. CASE ReadConfig
  <2>1. [seen EXCEPT !.entries = config.entries, !.config = config.version] \in Seen
    BY SeenConfig, Zenon DEF ReadConfig
  <2>2. RegistrationTypeOK'
    BY <1>1, <2>1 DEF ReadConfig, See, Refuse, Answered
  <2>3. HandlerShape'
    BY <1>1, <2>1 DEF ReadConfig, See, Refuse, Answered
  <2> QED BY <2>2, <2>3
<1>2. CASE ReadRoot
  <2>1. req.vault \in Vault /\ dir[req.vault] \in Slot
    BY <1>2, Requested DEF ReadRoot
  <2>2. [seen EXCEPT !.before = PolicyAt(dir[req.vault])] \in Seen
    BY <1>2, <2>1, SeenUpdates, Looked DEF ReadRoot
  <2>3. req.kind \in {"preview", "confirm", "mkdir"} /\ req.mode \in {"existing", "new"}
    BY <1>2, Requested DEF ReadRoot
  <2>4. RegistrationTypeOK'
    <3>1. CASE req.mode = "existing" <=> dir[req.vault] # None
      <4>1. pc' \in {"probe", "receipt", "make"}
        BY <1>2, <2>3, <3>1 DEF ReadRoot, Found
      <4> QED BY <1>2, <2>1, <2>2, <3>1, <4>1 DEF ReadRoot, Found
    <3>2. CASE ~(req.mode = "existing" <=> dir[req.vault] # None)
      BY <1>2, <2>1, <3>2 DEF ReadRoot, Refuse, Answered
    <3> QED BY <3>1, <3>2
  <2>5. HandlerShape'
    BY <1>2, <2>1, <2>2, <2>3 DEF ReadRoot, Found, Refuse, Answered, Slot
  <2> QED BY <2>4, <2>5
<1>3. CASE IssueReceipt
  <2>1. Intent \in Receipt /\ (Intent.mode = "existing" <=> Intent.root # None)
    BY <1>3, Requested, SeenUpdates DEF Receipt, Intent, IssueReceipt
  <2>2. receipt' \in [Token -> Receipt \cup {None}]
    BY <1>3, <2>1 DEF IssueReceipt
  <2>3. \A t \in Token : receipt'[t] # None =>
       (receipt'[t].mode = "existing" <=> receipt'[t].root # None)
    BY <1>3, <2>1 DEF IssueReceipt
  <2>4. RegistrationTypeOK'
    BY <1>3, <2>1, <2>2, <2>3 DEF IssueReceipt, Refuse, Answered
  <2>5. HandlerShape'
    BY <1>3, <2>1, <2>2, <2>3 DEF IssueReceipt, Refuse, Answered
  <2> QED BY <2>4, <2>5
<1>4. CASE TakeReceipt
  <2>1. req.token \in Token
    BY <1>4, Requested DEF TakeReceipt
  <2>2. RegistrationTypeOK'
    BY <1>4, <2>1 DEF TakeReceipt, Go, Refuse, Answered
  <2>3. HandlerShape'
    BY <1>4, <2>1 DEF TakeReceipt, Go, Refuse, Answered
  <2> QED BY <2>2, <2>3
<1>5. CASE MakeRoot
  <2>1. req.vault \in Vault /\ req.mode \in {"existing", "new"}
    BY <1>5, Requested DEF MakeRoot
  <2>2. dir' \in [Vault -> Slot] /\ root' \in Slot
    BY <1>5, <2>1 DEF Slot, Go, Refuse, Answered, MakeRoot
  <2>3. \A v, w \in Vault : dir'[v] = dir'[w] /\ dir'[v] # None => v = w
    BY <1>5, <2>1 DEF Slot, Unused, MakeRoot
  <2>4. RegistrationTypeOK'
    BY <1>5, <2>1, <2>2, <2>3 DEF MakeRoot, Unused, Go, Refuse, Answered, Slot
  <2>5. HandlerShape'
    BY <1>5, <2>1, <2>2, <2>3 DEF MakeRoot, Unused, Go, Refuse, Answered, Slot
  <2> QED BY <2>4, <2>5
<1>6. CASE VerifyRoot
  <2>1. RegistrationTypeOK'
    BY <1>6 DEF VerifyRoot, Answered, Refuse
  <2>2. HandlerShape'
    BY <1>6 DEF VerifyRoot, Answered, Refuse
  <2> QED BY <2>1, <2>2
<1>7. CASE InspectRoot
  <2>1. root \in Dir /\ policy[root] \in Version
    BY <1>7 DEF InspectRoot
  <2>2. [seen EXCEPT !.before = policy[root]] \in Seen
    BY <1>7, <2>1, SeenUpdates DEF Slot, InspectRoot
  <2>3. RegistrationTypeOK'
    BY <1>7, <2>1, <2>2 DEF InspectRoot, See, Refuse, Answered
  <2>4. HandlerShape'
    BY <1>7, <2>1, <2>2 DEF InspectRoot, See, Refuse, Answered
  <2> QED BY <2>3, <2>4
<1>8. CASE Enroll
  <2>1. req.vault \in Vault /\ dir[req.vault] \in Slot
    BY <1>8, Requested DEF Enroll
  <2>2. [seen EXCEPT !.watch = dir[req.vault]] \in Seen
    BY <1>8, <2>1, SeenUpdates, Versions DEF Enroll
  <2>3. RegistrationTypeOK'
    BY <1>8, <2>1, <2>2 DEF Enroll, See, Refuse, Answered
  <2>4. HandlerShape'
    BY <1>8, <2>1, <2>2 DEF Enroll, See, Refuse, Answered
  <2> QED BY <2>3, <2>4
<1>9. CASE Enumerate
  <2>1. root \in Dir /\ note[root] \in Version
    BY <1>9 DEF Enumerate
  <2>2. [seen EXCEPT !.index = note[root]] \in Seen
    BY <1>9, <2>1, SeenUpdates DEF Slot, Enumerate
  <2>3. RegistrationTypeOK'
    BY <1>9, <2>1, <2>2 DEF Enumerate, See
  <2>4. HandlerShape'
    BY <1>9, <2>1, <2>2 DEF Enumerate, See
  <2> QED BY <2>3, <2>4
<1>10. CASE InstallPolicy
  <2>1. root \in Dir
    BY <1>10 DEF InstallPolicy
  <2>2. Ours \in 0..MaxRequests /\ Ours \in Version
    BY <1>10, Versions DEF Ours, InstallPolicy
  <2>3. policy' \in [Dir -> Version]
    BY <1>10, <2>1, <2>2, SMTT(30) DEF WritePrepared, InstallPolicy
  <2>4. RegistrationTypeOK'
    BY <1>10, <2>1, <2>2, <2>3 DEF InstallPolicy, WritePrepared, Go, Refuse, Answered
  <2>5. HandlerShape'
    BY <1>10, <2>1, <2>2, <2>3 DEF InstallPolicy, WritePrepared, Go, Refuse, Answered
  <2> QED BY <2>4, <2>5
<1>11. CASE CheckPrepared
  <2>1. root \in Dir /\ policy[root] \in Version
    BY <1>11 DEF CheckPrepared
  <2>2. [seen EXCEPT !.prepared = policy[root]] \in Seen
    BY <1>11, <2>1, SeenUpdates DEF Slot, CheckPrepared
  <2>3. RegistrationTypeOK'
    BY <1>11, <2>1, <2>2 DEF CheckPrepared, See, Refuse, Answered
  <2>4. HandlerShape'
    BY <1>11, <2>1, <2>2 DEF CheckPrepared, See, Refuse, Answered
  <2> QED BY <2>3, <2>4
<1>12. CASE IndexNotes
  <2>1. root \in Dir /\ note[root] \in Version
    BY <1>12 DEF IndexNotes
  <2>2. [seen EXCEPT !.index = IF @ = 0 THEN 0 ELSE note[root]] \in Seen
    BY <1>12, <2>1, SeenUpdates, Versions DEF Slot, IndexNotes
  <2>3. RegistrationTypeOK'
    BY <1>12, <2>1, <2>2 DEF IndexNotes, See, Refuse, Answered
  <2>4. HandlerShape'
    BY <1>12, <2>1, <2>2 DEF IndexNotes, See, Refuse, Answered
  <2> QED BY <2>3, <2>4
<1>13. CASE Authorize
  <2>1. RegistrationTypeOK'
    BY <1>13 DEF Authorize, Go, Refuse, Answered
  <2>2. HandlerShape'
    BY <1>13 DEF Authorize, Go, Refuse, Answered
  <2> QED BY <2>1, <2>2
<1>14. CASE Commit
  <2>1. req.vault \in Vault
    BY <1>14, Requested DEF Commit
  <2>2. Ours \in Version
    BY <1>14, Versions DEF Commit
  <2>3. config' \in [entries : SUBSET Vault, version : Version]
    BY <1>14, <2>1, <2>2, SeenEntries DEF Commit
  <2>4. RegistrationTypeOK'
    BY <1>14, <2>1, <2>2, <2>3 DEF Commit, Refuse, Answered
  <2>5. HandlerShape'
    BY <1>14, <2>1, <2>2, <2>3 DEF Commit, Refuse, Answered
  <2> QED BY <2>4, <2>5
<1>15. CASE Publish
  <2>1. req.vault \in Vault
    BY <1>15, Requested DEF Publish
  <2>2. mine \in Version
    BY <1>15, BoundsAssumption DEF Version, Publish
  <2>3. /\ [policy |-> Parsed, source |-> seen.prepared, index |-> seen.index]
             \in [policy : Version, source : Version, index : Version]
        /\ seen.watch \in Slot
    BY <1>15, <2>2, SeenUpdates DEF Parsed, Publish
  <2>4. RegistrationTypeOK'
    BY <1>15, <2>1, <2>2, <2>3 DEF Publish, Installed, Answered
  <2>5. HandlerShape'
    BY <1>15, <2>1, <2>2, <2>3 DEF Publish, Installed, Answered
  <2> QED BY <2>4, <2>5
<1>16. CASE Denied
  <2>1. RegistrationTypeOK'
    BY <1>16 DEF Denied, Refuse, Answered
  <2>2. HandlerShape'
    BY <1>16 DEF Denied, Refuse, Answered
  <2> QED BY <2>1, <2>2
<1>17. CASE Fails
  <2>1. RegistrationTypeOK'
    BY <1>17 DEF Fails, Preparing, Refuse, Answered
  <2>2. HandlerShape'
    BY <1>17 DEF Fails, Preparing, Refuse, Answered
  <2> QED BY <2>1, <2>2
<1>18. CASE PolicyBack
  <2>1. 0 \in Version
    BY <1>18, Versions DEF PolicyBack
  <2>2. RegistrationTypeOK'
    BY <1>18, <2>1 DEF PolicyBack, Answered
  <2>3. HandlerShape'
    BY <1>18, <2>1 DEF PolicyBack, Answered
  <2> QED BY <2>2, <2>3
<1>19. CASE RootBack
  <2>1. req.vault \in Vault
    BY <1>19, Requested DEF RootBack
  <2>2. RegistrationTypeOK'
    BY <1>19, <2>1 DEF RootBack, Answered, Slot
  <2>3. HandlerShape'
    BY <1>19, <2>1 DEF RootBack, Answered, Slot
  <2> QED BY <2>2, <2>3
<1>20. CASE Answer
  <2>1. RegistrationTypeOK'
    BY <1>20 DEF Answer, Answered
  <2>2. HandlerShape'
    BY <1>20 DEF Answer, Answered
  <2> QED BY <2>1, <2>2
<1>21. CASE Finish
  <2>1. Nothing \in Seen
    BY <1>21, Versions DEF Seen, Nothing, Slot, Finish
  <2>2. 0 \in 0..MaxRequests /\ {} \subseteq {"kernel", "signal"}
    BY <1>21 DEF Finish
  <2>3. RegistrationTypeOK'
    BY <1>21, <2>1, <2>2 DEF Finish, Rest, Idle, Slot
  <2>4. HandlerShape'
    BY <1>21, <2>1, <2>2 DEF Finish, Rest, Idle, Slot
  <2> QED BY <2>3, <2>4
<1>22. CASE DeliverStaged
  <2>1. RegistrationTypeOK'
    BY <1>22 DEF DeliverStaged
  <2>2. HandlerShape'
    BY <1>22 DEF DeliverStaged
  <2> QED BY <2>1, <2>2
<1> QED BY <1>1, <1>2, <1>3, <1>4, <1>5, <1>6, <1>7, <1>8, <1>9, <1>10, <1>11, <1>12,
      <1>13, <1>14, <1>15, <1>16, <1>17, <1>18, <1>19, <1>20, <1>21, <1>22 DEF Step

(* So do those of the form. *)
LEMMA TypeForm == TypeInv /\ FormStep => TypeInv'
<1> SUFFICES ASSUME TypeInv, FormStep PROVE TypeInv'
  OBVIOUS
<1> USE NoneAssumption, BoundsAssumption
<1> USE DEF TypeInv, RegistrationTypeOK, HandlerShape, Idling, Forming, Holding, Early, At, Pc,
        Serving, files, server, world, history, own, locals
<1>0. /\ req.vault \in Vault /\ dir[req.vault] \in Slot /\ requests > 0
      /\ Ours \in Version /\ Ours \in 0..MaxRequests /\ mine \in Version /\ 0 \in Version
  <2>1. pc \in Forming
    BY DEF FormStep, FormPolicy, FormConfig, FormPublish, FormFails, FormBack
  <2> QED BY <2>1, Requested, Versions DEF Version, Ours
<1>n. Nothing \in Seen /\ 0 \in 0..MaxRequests /\ {} \subseteq {"kernel", "signal"}
  BY Versions DEF Seen, Nothing, Slot
<1>1. CASE FormPolicy
  <2>1. dir[req.vault] \in Dir
    BY <1>0, <1>1 DEF FormPolicy, Slot
  <2>2. policy' \in [Dir -> Version] /\ trampled' \subseteq Dir
    BY <1>0, <1>1, <2>1 DEF FormPolicy
  <2>3. RegistrationTypeOK'
    BY <1>0, <1>1, <2>2 DEF FormPolicy
  <2>4. HandlerShape'
    BY <1>0, <1>1 DEF FormPolicy
  <2> QED BY <2>3, <2>4
<1>2. CASE FormConfig
  <2>1. config' \in [entries : SUBSET Vault, version : Version]
    BY <1>0, <1>2, SeenEntries DEF FormConfig
  <2>2. RegistrationTypeOK'
    BY <1>2, <2>1 DEF FormConfig, Go
  <2>3. HandlerShape'
    BY <1>2 DEF FormConfig, Go
  <2> QED BY <2>2, <2>3
<1>3. CASE FormPublish
  <2>1. PolicyAt(dir[req.vault]) \in Version
    BY <1>0, Looked
  <2>2. [policy |-> mine, source |-> PolicyAt(dir[req.vault]), index |-> 0] \in Serving
    BY <1>0, <2>1
  <2>3. live' \in [Vault -> Serving \cup {None}] /\ missed' \subseteq Vault
    BY <1>0, <1>3, <2>2 DEF FormPublish
  <2>4. RegistrationTypeOK'
    BY <1>3, <1>n, <2>3 DEF FormPublish, Rest, Idle, Slot
  <2>5. HandlerShape'
    BY <1>3, <1>n DEF FormPublish, Rest, Idle
  <2> QED BY <2>4, <2>5
<1>4. CASE FormFails
  <2>1. RegistrationTypeOK'
    BY <1>4 DEF FormFails, Go
  <2>2. HandlerShape'
    BY <1>4 DEF FormFails, Go
  <2> QED BY <2>1, <2>2
<1>5. CASE FormBack
  <2>0. dir[req.vault] \in Dir \/ UNCHANGED <<policy, note, trampled>>
    BY <1>0, <1>5 DEF FormBack, Slot
  <2>p. policy' \in [Dir -> Version]
    BY <1>0, <1>5, <2>0 DEF FormBack
  <2>q. note' \in [Dir -> Version]
    BY <1>0, <1>5, <2>0 DEF FormBack
  <2>k. kernel' \subseteq Vault /\ trampled' \subseteq Dir
    BY <1>5, <2>0 DEF FormBack
  <2>2. dir' = dir \/ dir' = [dir EXCEPT ![req.vault] = None]
    BY <1>5 DEF FormBack
  <2>1. dir' \in [Vault -> Slot]
    BY <1>0, <2>2 DEF Slot
  <2>3. \A v, w \in Vault : dir'[v] = dir'[w] /\ dir'[v] # None => v = w
    BY <1>0, <2>2
  <2>4. RegistrationTypeOK'
    BY <1>5, <1>n, <2>1, <2>p, <2>q, <2>k, <2>3 DEF FormBack, Rest, Idle, Slot
  <2>5. HandlerShape'
    BY <1>5, <1>n DEF FormBack, Rest, Idle
  <2> QED BY <2>4, <2>5
<1> QED BY <1>1, <1>2, <1>3, <1>4, <1>5 DEF FormStep

(* So does everything else. *)
LEMMA TypeNext == TypeInv /\ [Next]_vars => TypeInv'
<1> SUFFICES ASSUME TypeInv, [Next]_vars PROVE TypeInv'
  OBVIOUS
<1> USE NoneAssumption, BoundsAssumption
<1> USE DEF TypeInv, RegistrationTypeOK, HandlerShape, Idling, Forming, Holding, Early, Pc,
        Serving, files, server, world, history, op, own, locals
<1>1. CASE Step
  BY <1>1, TypeStep
<1>2. ASSUME NEW v \in Vault, NEW who \in Session, NEW t \in Token \cup {None},
           NEW kind \in {"preview", "mkdir", "confirm"}, NEW mode \in {"existing", "new"},
           Begin(kind, mode, who, v, t)
      PROVE  TypeInv'
  <2>1. req' \in Request /\ req'.kind = kind /\ req'.token = t
    BY <1>2 DEF Request, Begin
  <2>2. requests' \in 0..MaxRequests /\ requests' > 0
    BY <1>2 DEF Begin
  <2>3. RegistrationTypeOK'
    BY <1>2, <2>1, <2>2 DEF Begin
  <2>4. HandlerShape'
    BY <1>2, <2>1, <2>2 DEF Begin
  <2> QED BY <2>3, <2>4
<1>3. ASSUME NEW who \in Session, NEW v \in Vault,
           Form(who, v)
      PROVE  TypeInv'
  <2>1. req' \in Request /\ req'.kind = "form" /\ req'.token = None
    BY <1>3 DEF Request, Form
  <2>2. requests' \in 0..MaxRequests /\ requests' > 0
    BY <1>3 DEF Form
  <2>3. seen' \in Seen
    BY <1>3, SeenConfig, Zenon DEF Form
  <2>4. PICK d \in Dir : Unused(d) /\ dir' = [dir EXCEPT ![v] = d]
    BY <1>3 DEF Form
  <2>5. \A w, u \in Vault : dir'[w] = dir'[u] /\ dir'[w] # None => w = u
    BY <1>3, <2>4 DEF Unused, Slot, Form
  <2>6. RegistrationTypeOK'
    BY <1>3, <2>1, <2>2, <2>3, <2>4, <2>5 DEF Form, Slot
  <2>7. HandlerShape'
    BY <1>3, <2>1, <2>2, <2>3, <2>4, <2>5 DEF Form, Slot
  <2> QED BY <2>6, <2>7
<1>4. ASSUME NEW v \in Vault,
           Reload(v)
      PROVE  TypeInv'
  <2>1. PolicyAt(dir[v]) \in Version
    BY <1>4, Looked DEF Reload
  <2>2. RegistrationTypeOK'
    BY <1>4, <2>1 DEF Reload
  <2>3. HandlerShape'
    BY <1>4, <2>1 DEF Reload
  <2> QED BY <2>2, <2>3
<1>5. ASSUME NEW v \in Vault,
           Deliver(v)
      PROVE  TypeInv'
  <2>1. RegistrationTypeOK'
    BY <1>5 DEF Deliver
  <2>2. HandlerShape'
    BY <1>5 DEF Deliver
  <2> QED BY <2>1, <2>2
<1>6. CASE Maintain
  <2>1. \A v \in Vault : NoteAt(dir[v]) \in Version
    BY <1>6, Looked DEF Maintain
  <2>2. live' \in [Vault -> [policy : Version, source : Version, index : Version] \cup {None}]
    BY <1>6, <2>1 DEF Maintain
  <2>3. RegistrationTypeOK'
    BY <1>6, <2>1, <2>2 DEF Maintain
  <2>4. HandlerShape'
    BY <1>6, <2>1, <2>2 DEF Maintain
  <2> QED BY <2>3, <2>4
<1>7. CASE Crash
  <2>1. 0 \in Version /\ \A v \in Vault : PolicyAt(dir[v]) \in Version
    BY <1>7, Looked, Versions DEF Crash
  <2>2. live' \in [Vault -> [policy : Version, source : Version, index : Version] \cup {None}]
    BY <1>7, <2>1 DEF Crash
  <2>3. Nothing \in Seen
    BY <1>7, Versions DEF Seen, Nothing, Slot, Crash
  <2>4. 0 \in 0..MaxRequests
    BY <1>7 DEF Crash
  <2>5. RegistrationTypeOK'
    BY <1>7, <2>1, <2>2, <2>3, <2>4 DEF Crash, Idle, Slot
  <2>6. HandlerShape'
    BY <1>7, <2>1, <2>2, <2>3, <2>4 DEF Crash, Idle, Slot
  <2> QED BY <2>5, <2>6
<1>8. ASSUME NEW t \in Token,
           Expire(t)
      PROVE  TypeInv'
  <2>1. RegistrationTypeOK'
    BY <1>8 DEF Expire
  <2>2. HandlerShape'
    BY <1>8 DEF Expire
  <2> QED BY <2>1, <2>2
<1>9. ASSUME NEW s \in Session,
           Revoke(s)
      PROVE  TypeInv'
  <2>1. RegistrationTypeOK'
    BY <1>9 DEF Revoke
  <2>2. HandlerShape'
    BY <1>9 DEF Revoke
  <2> QED BY <2>1, <2>2
<1>10. ASSUME NEW v \in Vault,
           WritePolicy(v)
      PROVE  TypeInv'
  <2>1. Theirs \in Version /\ 0 \in Version
    BY <1>10, Versions DEF Act, WritePolicy
  <2>2. dir[v] \in Dir
    BY <1>10 DEF Slot, WritePolicy
  <2>3. theirs' \in [Dir -> [policy : Version, note : Version]]
    BY <1>10, <2>1, <2>2 DEF WritePolicy
  <2>4. policy' \in [Dir -> Version]
    BY <1>10, <2>1, <2>2 DEF WritePolicy
  <2>5. RegistrationTypeOK'
    BY <1>10, <2>1, <2>2, <2>3, <2>4 DEF WritePolicy, Act
  <2>6. HandlerShape'
    BY <1>10, <2>1, <2>2, <2>3, <2>4 DEF WritePolicy, Act
  <2> QED BY <2>5, <2>6
<1>11. ASSUME NEW v \in Vault,
           RemovePolicy(v)
      PROVE  TypeInv'
  <2>1. 0 \in Version
    BY <1>11, Versions DEF RemovePolicy
  <2>2. dir[v] \in Dir
    BY <1>11 DEF Slot, PolicyAt, RemovePolicy
  <2>3. theirs' \in [Dir -> [policy : Version, note : Version]]
    BY <1>11, <2>1, <2>2 DEF RemovePolicy
  <2>4. policy' \in [Dir -> Version]
    BY <1>11, <2>1, <2>2 DEF RemovePolicy
  <2>5. RegistrationTypeOK'
    BY <1>11, <2>1, <2>2, <2>3, <2>4 DEF RemovePolicy, Act
  <2>6. HandlerShape'
    BY <1>11, <2>1, <2>2, <2>3, <2>4 DEF RemovePolicy, Act
  <2> QED BY <2>5, <2>6
<1>12. ASSUME NEW v \in Vault, NEW n \in {0, Theirs},
           WriteNote(v, n)
      PROVE  TypeInv'
  <2>1. n \in Version
    BY <1>12, Versions DEF Act, WriteNote
  <2>2. dir[v] \in Dir
    BY <1>12 DEF Slot, WriteNote
  <2>3. theirs' \in [Dir -> [policy : Version, note : Version]]
    BY <1>12, <2>1, <2>2 DEF WriteNote
  <2>4. note' \in [Dir -> Version]
    BY <1>12, <2>1, <2>2 DEF WriteNote
  <2>5. RegistrationTypeOK'
    BY <1>12, <2>1, <2>2, <2>3, <2>4 DEF WriteNote, Act
  <2>6. HandlerShape'
    BY <1>12, <2>1, <2>2, <2>3, <2>4 DEF WriteNote, Act
  <2> QED BY <2>5, <2>6
<1>13. ASSUME NEW v \in Vault, NEW d \in Slot,
           MoveRoot(v, d)
      PROVE  TypeInv'
  <2>1. \A w, u \in Vault : dir'[w] = dir'[u] /\ dir'[w] # None => w = u
    BY <1>13 DEF Unused, Slot, MoveRoot
  <2>2. RegistrationTypeOK'
    BY <1>13, <2>1 DEF MoveRoot, Act, After
  <2>3. HandlerShape'
    BY <1>13, <2>1 DEF MoveRoot, Act, After
  <2> QED BY <2>2, <2>3
<1>14. ASSUME NEW v \in Vault,
           CliCreate(v)
      PROVE  TypeInv'
  <2>1. Theirs \in Version
    BY <1>14, Versions DEF Act, CliCreate
  <2>2. dir[v] \in Dir
    BY <1>14 DEF Slot, CliCreate
  <2>3. theirs' \in [Dir -> [policy : Version, note : Version]]
    BY <1>14, <2>1, <2>2, SMTT(30) DEF CliCreate
  <2>4. policy' \in [Dir -> Version]
    BY <1>14, <2>1, <2>2 DEF CliCreate
  <2>5. config' \in [entries : SUBSET Vault, version : Version]
    BY <1>14, <2>1 DEF CliCreate
  <2>6. RegistrationTypeOK'
    BY <1>14, <2>1, <2>2, <2>3, <2>4, <2>5 DEF CliCreate, Act, After
  <2>7. HandlerShape'
    BY <1>14, <2>1, <2>2, <2>3, <2>4, <2>5 DEF CliCreate, Act, After
  <2> QED BY <2>6, <2>7
<1>15. ASSUME NEW v \in Vault,
           CliRemove(v)
      PROVE  TypeInv'
  <2>1. Theirs \in Version
    BY <1>15, Versions DEF Act, CliRemove
  <2>2. config' \in [entries : SUBSET Vault, version : Version]
    BY <1>15, <2>1 DEF CliRemove
  <2>3. RegistrationTypeOK'
    BY <1>15, <2>1, <2>2 DEF CliRemove, Act, After
  <2>4. HandlerShape'
    BY <1>15, <2>1, <2>2 DEF CliRemove, Act, After
  <2> QED BY <2>3, <2>4
<1>16. CASE UNCHANGED vars
  <2>1. RegistrationTypeOK'
    BY <1>16 DEF vars
  <2>2. HandlerShape'
    BY <1>16 DEF vars
  <2> QED BY <2>1, <2>2
<1>17. CASE FormStep
  BY <1>17, TypeForm
<1>18. CASE Started
  <2>1. \A v \in Vault : NoteAt(dir[v]) \in Version /\ PolicyAt(dir[v]) \in Version
    BY <1>18, Looked DEF Started
  <2>2. live' \in [Vault -> [policy : Version, source : Version, index : Version] \cup {None}]
    BY <1>18, <2>1 DEF Started, Running
  <2>3. watch' \in [Vault -> Slot] /\ missed' \subseteq Vault
    BY <1>18 DEF Started, Running, Slot
  <2>4. RegistrationTypeOK'
    BY <1>18, <2>2, <2>3 DEF Started, At, Go
  <2>5. HandlerShape'
    BY <1>18 DEF Started, At, Go
  <2> QED BY <2>4, <2>5
<1> QED BY <1>1, <1>2, <1>3, <1>4, <1>5, <1>6, <1>7, <1>8, <1>9, <1>10, <1>11, <1>12,
      <1>13, <1>14, <1>15, <1>16, <1>17, <1>18, SMTT(30) DEF Next

(* And they hold at the start. *)
LEMMA TypeInit == Init => TypeInv
<1> SUFFICES ASSUME Init PROVE TypeInv
  OBVIOUS
<1>1. 0 \in Version /\ Nothing \in Seen /\ 0 \in 0..MaxRequests /\ 0 \in 0..MaxWrites
  BY Versions, BoundsAssumption DEF Seen, Nothing, Slot
<1>2. theirs \in [Dir -> [policy : Version, note : Version]]
  BY <1>1 DEF Init
<1>3. trampled \subseteq Dir /\ missed \subseteq Vault /\ late \subseteq {"dir", "config"}
  BY DEF Init
<1>4. RegistrationTypeOK
  BY <1>1, <1>2, <1>3, NoneAssumption DEF Init, RegistrationTypeOK, Pc, Slot
<1> QED BY <1>4, NoneAssumption DEF Init, TypeInv, HandlerShape, Idling, Forming, Holding, Early

(* Every state of every run has its types, two vaults are never one directory, and a
   preview of an existing directory holds it. *)
THEOREM Typed == Spec => []RegistrationTypeOK
<1>1. Spec => []TypeInv
  BY TypeInit, TypeNext, PTL DEF Spec
<1> QED BY <1>1, PTL DEF TypeInv

-----------------------------------------------------------------------------
(* The files: two steps of a request, two of the form, and other programs. *)
LEMMA TouchFiles ==
  [Next]_vars =>
    \/ UNCHANGED <<policy, note, theirs, trampled>>
    \/ InstallPolicy \/ PolicyBack \/ FormPolicy \/ FormBack
    \/ \E v \in Vault : WritePolicy(v) \/ RemovePolicy(v) \/ CliCreate(v)
    \/ \E v \in Vault, n \in {0, Theirs} : WriteNote(v, n)
<1> SUFFICES ASSUME [Next]_vars, ~(InstallPolicy \/ PolicyBack \/ FormPolicy \/ FormBack)
    PROVE  \/ UNCHANGED <<policy, note, theirs, trampled>>
           \/ \E v \in Vault : WritePolicy(v) \/ RemovePolicy(v) \/ CliCreate(v)
           \/ \E v \in Vault, n \in {0, Theirs} : WriteNote(v, n)
  OBVIOUS
<1> USE DEF vars, files, world, history
<1>1. CASE Step \/ FormStep
  BY <1>1 DEF Step, ReadConfig, ReadRoot, IssueReceipt, TakeReceipt, MakeRoot, VerifyRoot,
    InspectRoot, Enroll, Enumerate, CheckPrepared, IndexNotes, Authorize, Commit, Publish,
    Denied, Fails, RootBack, Answer, Finish, DeliverStaged, FormStep, FormConfig,
    FormPublish, FormFails
<1>2. CASE Maintain \/ Crash \/ Started \/ UNCHANGED vars
  BY <1>2 DEF Maintain, Crash, Started
<1>3. ASSUME NEW v \in Vault, NEW who \in Session, NEW t \in Token \cup {None},
             NEW kind \in {"preview", "mkdir", "confirm"}, NEW mode \in {"existing", "new"},
             Begin(kind, mode, who, v, t) \/ Form(who, v)
      PROVE  UNCHANGED <<policy, note, theirs, trampled>>
  BY <1>3 DEF Begin, Form
<1>4. ASSUME NEW v \in Vault, NEW d \in Slot,
             Reload(v) \/ Deliver(v) \/ CliRemove(v) \/ MoveRoot(v, d)
      PROVE  UNCHANGED <<policy, note, theirs, trampled>>
  BY <1>4 DEF Reload, Deliver, CliRemove, MoveRoot, Act
<1>5. ASSUME (\E t \in Token : Expire(t)) \/ \E s \in Session : Revoke(s)
      PROVE  UNCHANGED <<policy, note, theirs, trampled>>
  BY <1>5 DEF Expire, Revoke
<1> QED BY <1>1, <1>2, <1>3, <1>4, <1>5 DEF Next, Slot

(* The live registry: publication, the form, a reload, maintenance, a restart. *)
LEMMA TouchLive ==
  [Next]_vars =>
    \/ UNCHANGED <<live, missed>>
    \/ Publish \/ FormPublish \/ Maintain \/ Crash \/ Started
    \/ \E v \in Vault : Reload(v)
<1> SUFFICES ASSUME [Next]_vars, ~(Publish \/ FormPublish)
    PROVE  \/ UNCHANGED <<live, missed>>
           \/ Maintain \/ Crash \/ Started \/ \E v \in Vault : Reload(v)
  OBVIOUS
<1> USE DEF vars, files, server, world, history
<1>1. CASE Step \/ FormStep
  BY <1>1 DEF Step, ReadConfig, ReadRoot, IssueReceipt, TakeReceipt, MakeRoot, VerifyRoot,
    InspectRoot, Enroll, Enumerate, InstallPolicy, PolicyBack, CheckPrepared, IndexNotes,
    Authorize, Commit, Denied, Fails, RootBack, Answer, Finish, DeliverStaged, FormStep,
    FormPolicy, FormConfig, FormFails, FormBack
<1>3. ASSUME NEW v \in Vault, NEW who \in Session, NEW t \in Token \cup {None},
             NEW kind \in {"preview", "mkdir", "confirm"}, NEW mode \in {"existing", "new"},
             Begin(kind, mode, who, v, t) \/ Form(who, v)
      PROVE  UNCHANGED <<live, missed>>
  BY <1>3 DEF Begin, Form
<1>4. ASSUME NEW v \in Vault, NEW n \in {0, Theirs}, NEW d \in Slot,
             \/ Deliver(v) \/ WritePolicy(v) \/ RemovePolicy(v) \/ WriteNote(v, n)
             \/ MoveRoot(v, d) \/ CliCreate(v) \/ CliRemove(v)
      PROVE  UNCHANGED <<live, missed>>
  BY <1>4 DEF Deliver, WritePolicy, RemovePolicy, WriteNote, MoveRoot, CliCreate, CliRemove, Act
<1>5. ASSUME (\E t \in Token : Expire(t)) \/ \E s \in Session : Revoke(s)
      PROVE  UNCHANGED <<live, missed>>
  BY <1>5 DEF Expire, Revoke
<1>6. CASE UNCHANGED vars
  BY <1>6
<1> QED BY <1>1, <1>3, <1>4, <1>5, <1>6 DEF Next, Slot

(* The form and the start: steps of their own, and what they leave. *)
LEMMA Aside ==
  ASSUME TypeInv, FormStep \/ Started \/ Crash \/ \E v \in Vault, who \in Session : Form(who, v)
  PROVE  /\ pc' \in Idling \cup Forming
         /\ committed' = committed \/ committed' = FALSE
<1>1. pc' \in Idling \cup Forming
  BY DEF FormStep, FormPolicy, FormConfig, FormPublish, FormFails, FormBack, Started, Crash,
    Form, Go, Rest, Idle, Idling, Forming
<1>2. committed' = committed \/ committed' = FALSE
  BY DEF FormStep, FormPolicy, FormConfig, FormPublish, FormFails, FormBack, Started, Crash,
    Form, Go, Rest, Idle, locals
<1> QED BY <1>1, <1>2

(* The prepared policy: the steps from its installation to the rename. *)
LEMMA TouchPrepared ==
  TypeInv /\ [Next]_vars =>
    \/ pc' \notin {"prepared", "index", "authorize", "commit", "publish"}
    \/ pc' = pc /\ UNCHANGED <<mine, seen>>
    \/ InstallPolicy \/ CheckPrepared \/ IndexNotes \/ Authorize \/ Commit
<1> SUFFICES ASSUME TypeInv, [Next]_vars
    PROVE  \/ pc' \notin {"prepared", "index", "authorize", "commit", "publish"}
           \/ pc' = pc /\ UNCHANGED <<mine, seen>>
           \/ InstallPolicy \/ CheckPrepared \/ IndexNotes \/ Authorize \/ Commit
  OBVIOUS
<1>1. CASE ReadRoot
  <2>1. req.kind \in {"preview", "confirm", "mkdir"}
    BY <1>1, Requested DEF TypeInv, HandlerShape, Idling, Forming, ReadRoot, At
  <2> QED BY <1>1, <2>1 DEF ReadRoot, Found, Refuse, Answered
<1>2. CASE Step /\ ~ReadRoot
  BY <1>2 DEF locals, own, Step, At, Go, See, Answered, Refuse, Rest, Idle, Found, ReadConfig,
    IssueReceipt, TakeReceipt, MakeRoot, VerifyRoot, InspectRoot, Enroll, Enumerate,
    PolicyBack, Publish, Denied, Fails, RootBack, Answer, Finish, DeliverStaged
<1>3. CASE Maintain \/ UNCHANGED vars
  BY <1>3 DEF vars, op, locals, own, Maintain
<1>f. CASE FormStep \/ Started \/ Crash \/ \E v \in Vault, who \in Session : Form(who, v)
  BY <1>f, Aside DEF Idling, Forming
<1>4. ASSUME NEW v \in Vault, NEW who \in Session, NEW t \in Token \cup {None},
             NEW kind \in {"preview", "mkdir", "confirm"}, NEW mode \in {"existing", "new"},
             Begin(kind, mode, who, v, t)
      PROVE  pc' \notin {"prepared", "index", "authorize", "commit", "publish"}
  BY <1>4 DEF op, Begin
<1>5. ASSUME NEW v \in Vault, NEW n \in {0, Theirs}, NEW d \in Slot,
             \/ Reload(v) \/ Deliver(v) \/ WritePolicy(v) \/ RemovePolicy(v)
             \/ CliCreate(v) \/ CliRemove(v) \/ WriteNote(v, n) \/ MoveRoot(v, d)
      PROVE  pc' = pc /\ UNCHANGED <<mine, seen>>
  BY <1>5 DEF op, locals, own, Reload, Deliver, WritePolicy, RemovePolicy, WriteNote,
    MoveRoot, CliCreate, CliRemove
<1>6. ASSUME (\E t \in Token : Expire(t)) \/ \E s \in Session : Revoke(s)
      PROVE  pc' = pc /\ UNCHANGED <<mine, seen>>
  BY <1>6 DEF op, locals, own, Expire, Revoke
<1> QED BY <1>1, <1>2, <1>3, <1>f, <1>4, <1>5, <1>6 DEF Next, Slot

-----------------------------------------------------------------------------
(* What others put there is newer than any request, and still there. *)
Kept == \A d \in Dir \ trampled :
  /\ theirs[d].policy # 0 => theirs[d].policy > MaxRequests /\ policy[d] = theirs[d].policy
  /\ note[d] = theirs[d].note

(* A request writes a policy where there is none and takes back only its own; the form
   marks the directory if it was not its own alone. *)
LEMMA KeptNext == TypeInv /\ Kept /\ [Next]_vars => Kept'
<1> SUFFICES ASSUME TypeInv, Kept, [Next]_vars PROVE Kept'
  OBVIOUS
<1> USE NoneAssumption, BoundsAssumption
<1> USE DEF TypeInv, RegistrationTypeOK, HandlerShape, Kept
<1>1. CASE UNCHANGED <<policy, note, theirs, trampled>>
  BY <1>1
<1>2. CASE InstallPolicy
  <2>1. root \in Dir /\ UNCHANGED <<note, theirs, trampled>>
    BY <1>2 DEF InstallPolicy, At, Holding, world, history
  <2>2. policy' = policy \/ (policy[root] = 0 /\ policy' = [policy EXCEPT ![root] = Ours])
    BY <1>2 DEF InstallPolicy, WritePrepared
  <2> QED BY <2>1, <2>2
<1>3. CASE PolicyBack
  <2>1. UNCHANGED <<note, theirs, trampled>>
    BY <1>3 DEF PolicyBack, world, history
  <2>2. \/ policy' = policy
        \/ root \in Dir /\ policy[root] = mine /\ mine # 0 /\ policy' = [policy EXCEPT ![root] = 0]
    BY <1>3 DEF PolicyBack, At, Forming
  <2>3. mine \in Nat /\ mine <= MaxRequests
    OBVIOUS
  <2> QED BY <2>1, <2>2, <2>3
<1>v. (FormPolicy \/ FormBack) => req.vault \in Vault /\ dir[req.vault] \in Slot
  BY Requested DEF FormPolicy, FormBack, At, Idling
<1>4. CASE FormPolicy \/ FormBack
  <2> DEFINE d == dir[req.vault]
  <2>1. UNCHANGED theirs /\ trampled \subseteq trampled'
    BY <1>4 DEF FormPolicy, FormBack
  <2>2. \A e \in Dir : e # d => policy'[e] = policy[e] /\ note'[e] = note[e]
    BY <1>4 DEF FormPolicy, FormBack, files
  <2>3. \/ UNCHANGED <<policy, note>>
        \/ d \in trampled'
        \/ d \in Dir /\ theirs[d] = [policy |-> 0, note |-> 0] /\ note'[d] \in {note[d], 0}
    BY <1>v, <1>4 DEF FormPolicy, FormBack, files, Foreign, Slot
  <2> HIDE DEF d
  <2> QED BY <2>1, <2>2, <2>3
<1>5. ASSUME NEW v \in Vault, WritePolicy(v) \/ RemovePolicy(v) \/ CliCreate(v) PROVE Kept'
  <2>1. Theirs \in Nat /\ Theirs > MaxRequests
    BY DEF Theirs
  <2>2. dir[v] \in Dir /\ UNCHANGED <<note, trampled>>
    BY <1>5 DEF WritePolicy, RemovePolicy, CliCreate, PolicyAt, Slot, Act
  <2>3. CASE WritePolicy(v)
    BY <2>1, <2>2, <2>3 DEF WritePolicy
  <2>4. CASE RemovePolicy(v)
    BY <2>2, <2>4 DEF RemovePolicy
  <2>5. CASE CliCreate(v)
    BY <2>1, <2>2, <2>5 DEF CliCreate
  <2> QED BY <1>5, <2>3, <2>4, <2>5
<1>6. ASSUME NEW v \in Vault, NEW n \in {0, Theirs}, WriteNote(v, n) PROVE Kept'
  <2>1. dir[v] \in Dir
    BY <1>6 DEF WriteNote, Slot
  <2> QED BY <1>6, <2>1 DEF WriteNote, Act
<1> QED BY <1>1, <1>2, <1>3, <1>4, <1>5, <1>6, TouchFiles

(* What others wrote into a directory stays until they change it, whatever confirmed
   registrations and mkdirs prepare, commit and take back there; a directory that the form
   wrote over or removed while it held something of others is named by trampled. *)
THEOREM OthersKept == Spec => []ForeignKept
<1>1. Init => TypeInv /\ Kept
  BY TypeInit DEF Init, Kept
<1>2. TypeInv /\ Kept => ForeignKept
  BY DEF Kept, ForeignKept
<1> QED BY <1>1, <1>2, TypeNext, KeptNext, PTL DEF Spec

-----------------------------------------------------------------------------
(* What has been taken back at which step, and that the rename ends in success. *)
Told == {"conflict", "failed"}
UndoInv ==
  /\ committed => \/ pc = "publish"
                  \/ pc \in {"answer", "answered"} /\ answer \notin Told
  /\ pc = "root_back" \/ (pc \in {"answer", "answered"} /\ answer \in Told) =>
       (mine # 0 => policy[root] # mine)
  /\ pc \in {"answer", "answered"} /\ answer \in Told => (made => dir[req.vault] # root)

(* What a rollback has taken back stays away, and what it could not is told. *)
LEMMA UndoNext == TypeInv /\ UndoInv /\ [Next]_vars => UndoInv'
<1> SUFFICES ASSUME TypeInv, UndoInv, [Next]_vars PROVE UndoInv'
  OBVIOUS
<1> USE NoneAssumption, BoundsAssumption
<1> USE DEF UndoInv, Told, Idling, Forming
<1>1. CASE PolicyBack
  <2>1. mine # 0 => root \in Dir /\ policy \in [Dir -> Version]
    BY <1>1 DEF PolicyBack, At, TypeInv, RegistrationTypeOK, HandlerShape
  <2> QED BY <1>1, <2>1 DEF PolicyBack, At, Answered, locals, own, world
<1>2. CASE RootBack
  <2>1. req.vault \in Vault /\ dir \in [Vault -> Slot] /\ (made => root \in Dir)
    BY <1>2, Requested DEF RootBack, At, TypeInv, RegistrationTypeOK, HandlerShape
  <2> QED BY <1>2, <2>1 DEF RootBack, At, Answered, locals, own, world
<1>3. CASE Answer
  BY <1>3 DEF Answer, At, Answered, locals, own, files
<1>4. CASE Commit \/ Publish
  BY <1>4 DEF Commit, Publish, At, Refuse, Answered, locals, own, files
<1>5. CASE IssueReceipt \/ VerifyRoot
  BY <1>5 DEF IssueReceipt, VerifyRoot, At, Refuse, Answered, locals, own, files
<1>6. CASE DeliverStaged
  BY <1>6 DEF DeliverStaged, own, files
<1>7. CASE Step /\ ~(PolicyBack \/ RootBack \/ Answer \/ Commit \/ Publish \/ IssueReceipt
                     \/ VerifyRoot \/ DeliverStaged)
  <2>1. pc' \notin {"publish", "root_back", "answer", "answered"} /\ ~committed'
    BY <1>7 DEF Step, At, Go, See, Answered, Refuse, Rest, Found, ReadConfig, ReadRoot,
      TakeReceipt, MakeRoot, InspectRoot, Enroll, Enumerate, InstallPolicy, WritePrepared,
      CheckPrepared, IndexNotes, Authorize, Denied, Fails, Preparing, Finish, Idle, locals,
      TypeInv, HandlerShape, Request
  <2> QED BY <2>1
<1>8. CASE UNCHANGED vars
  BY <1>8 DEF vars, op, locals, own, files
<1>9. CASE Maintain
  BY <1>9 DEF Maintain, op, locals, own, files
<1>f. CASE FormStep \/ Started \/ Crash \/ \E v \in Vault, who \in Session : Form(who, v)
  <2>1. CASE pc' = "rest" \/ pc' = "start"
    <3>1. ~committed'
      BY <1>f, <2>1 DEF FormStep, FormPolicy, FormConfig, FormPublish, FormFails, FormBack,
        Started, Crash, Form, At, Go, Rest, Idle, locals
    <3> QED BY <2>1, <3>1
  <2>2. CASE pc' \in Forming
    <3>1. ~committed'
      BY <1>f, <2>2 DEF FormStep, FormPolicy, FormConfig, FormPublish, FormFails, FormBack,
        Started, Crash, Form, At, Go, Rest, Idle, locals
    <3> QED BY <2>2, <3>1
  <2> QED BY <1>f, <2>1, <2>2, Aside
<1>10. ASSUME NEW v \in Vault, NEW who \in Session, NEW t \in Token \cup {None},
              NEW kind \in {"preview", "mkdir", "confirm"}, NEW mode \in {"existing", "new"},
              Begin(kind, mode, who, v, t)
       PROVE  UndoInv'
  BY <1>10 DEF op, locals, Begin
<1>11. ASSUME NEW v \in Vault, NEW n \in {0, Theirs}, NEW d \in Slot,
              \/ Reload(v) \/ Deliver(v) \/ CliRemove(v) \/ WriteNote(v, n)
       PROVE  UndoInv'
  BY <1>11 DEF Reload, Deliver, CliRemove, WriteNote, op, locals, own, files
<1>12. ASSUME NEW v \in Vault, WritePolicy(v) \/ RemovePolicy(v) \/ CliCreate(v)
       PROVE  UndoInv'
  <2>1. /\ mine # 0 /\ pc \notin Forming => root \in Dir
        /\ policy \in [Dir -> Version] /\ mine \in Nat /\ mine <= MaxRequests
        /\ Theirs \in Nat /\ Theirs > MaxRequests /\ dir[v] \in Dir
    BY <1>12 DEF TypeInv, RegistrationTypeOK, HandlerShape, Theirs, WritePolicy,
        RemovePolicy,
      CliCreate, PolicyAt, Slot
  <2>2. UNCHANGED <<op, dir>>
    BY <1>12 DEF WritePolicy, RemovePolicy, CliCreate
  <2>3. \A d \in Dir : policy'[d] \in {policy[d], 0, Theirs}
    BY <1>12, <2>1 DEF WritePolicy, RemovePolicy, CliCreate
  <2> QED BY <2>1, <2>2, <2>3 DEF op, locals, own
<1>13. ASSUME NEW v \in Vault, NEW d \in Slot, MoveRoot(v, d)
       PROVE  UndoInv'
  <2>1. pc \notin Idling => req.vault \in Vault
    BY Requested DEF TypeInv, HandlerShape
  <2>2. dir \in [Vault -> Slot] /\ (made => root \in Dir)
    BY DEF TypeInv, RegistrationTypeOK, HandlerShape
  <2>3. d # root \/ ~made
    BY <1>13, <2>2 DEF MoveRoot, Unused
  <2> QED BY <1>13, <2>1, <2>2, <2>3 DEF MoveRoot, op, locals, own
<1>14. ASSUME (\E t \in Token : Expire(t)) \/ \E s \in Session : Revoke(s)
       PROVE  UndoInv'
  BY <1>14 DEF Expire, Revoke, op, locals, own, files
<1> QED BY <1>1, <1>2, <1>3, <1>4, <1>5, <1>6, <1>7, <1>8, <1>9, <1>f, <1>10, <1>11, <1>12,
      <1>13, <1>14 DEF Next, Slot

(* Who is told of a conflict or a failure finds nothing of the request left. *)
THEOREM RefusedClean == Spec => []RefusedLeavesNothing
<1>1. Init => TypeInv /\ UndoInv
  BY TypeInit DEF Init, UndoInv
<1>2. UndoInv => RefusedLeavesNothing
  BY DEF UndoInv, Told, RefusedLeavesNothing, At
<1> QED BY <1>1, <1>2, TypeNext, UndoNext, PTL DEF Spec
-----------------------------------------------------------------------------
(* The stamp that goes with a prepared policy is that of the text that was parsed. *)
PreparedInv ==
  /\ pc \in {"prepared", "index", "authorize", "commit"} => mine # 0 \/ seen.before # 0
  /\ pc \in {"index", "authorize", "commit", "publish"} => seen.prepared = Parsed

(* The stamp is taken where the file is compared with the text. *)
LEMMA PreparedNext == TypeInv /\ PreparedInv /\ [Next]_vars => PreparedInv'
<1> SUFFICES ASSUME TypeInv, PreparedInv, [Next]_vars PROVE PreparedInv'
  OBVIOUS
<1> USE NoneAssumption, BoundsAssumption
<1> USE DEF PreparedInv, Parsed, At, Go, See, Answered, Refuse, locals, own
<1>1. CASE pc' \notin {"prepared", "index", "authorize", "commit", "publish"}
  BY <1>1
<1>2. CASE pc' = pc /\ UNCHANGED <<mine, seen>>
  BY <1>2
<1>3. CASE InstallPolicy
  <2>1. Ours # 0
    BY <1>3 DEF InstallPolicy, Ours, TypeInv, RegistrationTypeOK, HandlerShape, Idling
  <2> QED BY <1>3, <2>1 DEF InstallPolicy, WritePrepared
<1>4. CASE CheckPrepared
  BY <1>4 DEF CheckPrepared, TypeInv, RegistrationTypeOK, Seen
<1>5. CASE IndexNotes
  BY <1>5 DEF IndexNotes, TypeInv, RegistrationTypeOK, Seen
<1>6. CASE Authorize
  BY <1>6 DEF Authorize
<1>7. CASE Commit
  BY <1>7 DEF Commit
<1> QED BY <1>1, <1>2, <1>3, <1>4, <1>5, <1>6, <1>7, TouchPrepared

(* Every policy that is served goes with the stamp it was read or written at, but for
   those that the form or the start published with a later stamp. *)
Served == \A v \in Vault \ missed : live[v] # None => live[v].policy = live[v].source

(* Publication takes both from the request, a reload both from the file. *)
LEMMA ServedNext == TypeInv /\ PreparedInv /\ Served /\ [Next]_vars => Served'
<1> SUFFICES ASSUME TypeInv, PreparedInv, Served, [Next]_vars PROVE Served'
  OBVIOUS
<1> USE NoneAssumption, BoundsAssumption
<1> USE DEF TypeInv, RegistrationTypeOK, Served
<1>1. CASE UNCHANGED <<live, missed>>
  BY <1>1
<1>2. CASE Publish
  <2>1. seen.prepared = Parsed
    BY <1>2 DEF Publish, At, PreparedInv
  <2> QED BY <1>2, <2>1 DEF Publish, Installed, world, history
<1>3. CASE Maintain
  BY <1>3 DEF Maintain, world, history
<1>4. CASE Crash
  BY <1>4 DEF Crash
<1>5. CASE FormPublish
  BY <1>5 DEF FormPublish
<1>6. ASSUME NEW v \in Vault, Reload(v) PROVE Served'
  BY <1>6 DEF Reload
<1>7. CASE Started
  BY <1>7 DEF Started, Running
<1> QED BY <1>1, <1>2, <1>3, <1>4, <1>5, <1>6, <1>7, TouchLive

(* A served policy with the stamp of the file is what the file says, so the next look at
   the stamp finds every edit, those made while a confirmed registration prepared
   included; the policies that the form or the start published with the stamp of a later
   edit are named by missed. *)
THEOREM NoEditMissed == Spec => []PolicyFollows
<1>1. Init => TypeInv /\ PreparedInv /\ Served
  BY TypeInit DEF Init, PreparedInv, Served
<1>2. Served => PolicyFollows
  BY DEF Served, PolicyFollows, Running
<1> QED BY <1>1, <1>2, TypeNext, PreparedNext, ServedNext, PTL DEF Spec

-----------------------------------------------------------------------------
(* A configuration with the version that was read has the entries that were read, until
   the request writes it itself. *)
ReadInv ==
  /\ config.version <= MaxRequests + writes /\ seen.config <= MaxRequests + writes
  /\ config.version = 0 => config.entries = {}
  /\ config.version = seen.config =>
       config.entries = seen.entries \/ committed \/ pc \in Forming

(* Every other write of the configuration has a version of its own. *)
LEMMA ReadNext == TypeInv /\ ReadInv /\ [Next]_vars => ReadInv'
<1> SUFFICES ASSUME TypeInv, ReadInv, [Next]_vars PROVE ReadInv'
  OBVIOUS
<1> USE BoundsAssumption DEF ReadInv
<1>t. /\ config \in [entries : SUBSET Vault, version : Version] /\ seen \in Seen
      /\ config.version \in Nat /\ seen.config \in Nat /\ writes \in Nat
      /\ requests \in Nat /\ requests <= MaxRequests
      /\ Nothing.config = 0 /\ Nothing.entries = {}
  BY DEF TypeInv, RegistrationTypeOK, Version, Seen, Nothing
<1>0. ASSUME UNCHANGED <<config, committed, writes>>,
             seen'.config = seen.config, seen'.entries = seen.entries,
             pc \in Forming => pc' \in Forming
      PROVE  ReadInv'
  BY <1>0
<1>i. ASSUME UNCHANGED <<config, writes>>, seen' = Nothing PROVE ReadInv'
  BY <1>t, <1>i
<1>r. ASSUME UNCHANGED <<config, writes>>,
             seen' = [seen EXCEPT !.entries = config.entries, !.config = config.version]
      PROVE  ReadInv'
  <2>1. seen'.entries = config.entries /\ seen'.config = config.version
    BY <1>t, <1>r DEF Seen
  <2> QED BY <1>r, <2>1
<1>c. ASSUME UNCHANGED writes, config'.version = Ours, requests > 0, seen' = seen,
             committed' \/ pc' \in Forming
      PROVE  ReadInv'
  BY <1>t, <1>c DEF Ours
<1> USE DEF locals, own, op, world
<1>1. CASE ReadConfig
  BY <1>0, <1>1, <1>r DEF ReadConfig, At, See, Refuse, Answered, Forming
<1>2. CASE Commit
  <2>1. requests > 0
    BY <1>2 DEF Commit, At, TypeInv, HandlerShape, Idling
  <2>2. CASE UNCHANGED config
    BY <1>0, <1>2, <2>2 DEF Commit, At, Refuse, Answered, Forming
  <2>3. CASE ~UNCHANGED config
    BY <1>c, <1>2, <2>1, <2>3 DEF Commit
  <2> QED BY <2>2, <2>3
<1>3. CASE Finish \/ FormPublish \/ FormBack
  BY <1>i, <1>3 DEF Finish, FormPublish, FormBack, Rest, Idle
<1>4. CASE FormConfig
  <2>1. requests > 0
    BY <1>4 DEF FormConfig, At, TypeInv, HandlerShape, Idling
  <2> QED BY <1>c, <1>4, <2>1 DEF FormConfig, Go, Forming
<1>5. CASE FormPolicy \/ FormFails
  BY <1>0, <1>5 DEF FormPolicy, FormFails, Go, Forming
<1>6. CASE Step /\ ~(ReadConfig \/ Commit \/ Finish)
  <2>1. UNCHANGED <<config, committed, writes>> /\ (pc \in Forming => pc' \in Forming)
    BY <1>6 DEF Step, At, Go, See, Answered, Refuse, Found, ReadRoot, IssueReceipt, TakeReceipt,
      MakeRoot, VerifyRoot, InspectRoot, Enroll, Enumerate, InstallPolicy, WritePrepared,
      CheckPrepared, IndexNotes, Authorize, PolicyBack, Publish, Denied, Fails, Preparing,
      RootBack, Answer, DeliverStaged, Forming, TypeInv
  <2>2. seen'.config = seen.config /\ seen'.entries = seen.entries
    BY <1>t, <1>6 DEF Step, Go, See, Answered, Refuse, Found, ReadRoot, IssueReceipt, TakeReceipt,
      MakeRoot, VerifyRoot, InspectRoot, Enroll, Enumerate, InstallPolicy, WritePrepared,
      CheckPrepared, IndexNotes, Authorize, PolicyBack, Publish, Denied, Fails,
      RootBack, Answer, DeliverStaged, Seen
  <2> QED BY <1>0, <2>1, <2>2
<1>7. CASE Crash
  BY <1>i, <1>7 DEF Crash, Idle
<1>8. CASE Started \/ Maintain \/ UNCHANGED vars
  BY <1>0, <1>8 DEF Started, Maintain, At, Go, Forming, vars
<1>9. ASSUME NEW v \in Vault, NEW who \in Session, NEW t \in Token \cup {None},
             NEW kind \in {"preview", "mkdir", "confirm"}, NEW mode \in {"existing", "new"},
             Begin(kind, mode, who, v, t)
      PROVE  ReadInv'
  BY <1>0, <1>9 DEF Begin, Forming
<1>10. ASSUME NEW v \in Vault, NEW who \in Session, Form(who, v) PROVE ReadInv'
  BY <1>r, <1>10 DEF Form
<1>11. ASSUME NEW v \in Vault, CliCreate(v) \/ CliRemove(v) PROVE ReadInv'
  <2>1. config'.version = MaxRequests + writes + 1 /\ writes' = writes + 1 /\ UNCHANGED op
    BY <1>11 DEF CliCreate, CliRemove, Act, Theirs
  <2> QED BY <1>t, <2>1
<1>12. ASSUME NEW v \in Vault, NEW n \in {0, Theirs}, NEW d \in Slot,
              \/ WritePolicy(v) \/ RemovePolicy(v) \/ WriteNote(v, n) \/ MoveRoot(v, d)
       PROVE  ReadInv'
  <2>1. writes' = writes + 1 /\ UNCHANGED <<config, seen, committed, pc>>
    BY <1>12 DEF WritePolicy, RemovePolicy, WriteNote, MoveRoot, Act
  <2> QED BY <1>t, <2>1
<1>13. ASSUME NEW v \in Vault, Reload(v) \/ Deliver(v) PROVE ReadInv'
  BY <1>0, <1>13 DEF Reload, Deliver
<1>14. ASSUME (\E t \in Token : Expire(t)) \/ \E s \in Session : Revoke(s)
       PROVE  ReadInv'
  BY <1>0, <1>14 DEF Expire, Revoke
<1> QED BY <1>1, <1>2, <1>3, <1>4, <1>5, <1>6, <1>7, <1>8, <1>9, <1>10, <1>11, <1>12, <1>13,
      <1>14 DEF Next, FormStep, Slot

(* Between the last look and the rename the session and the registry of the running
   server are as they were found, and so are the directory and the configuration unless
   others came in between. *)
CommitInv == pc = "commit" =>
  /\ Authorized /\ live[req.vault] = None
  /\ dir[req.vault] = root \/ "dir" \in late
  /\ config.entries = seen.entries \/ "config" \in late

(* Nobody acts on session or registry under the locks. *)
LEMMA CommitNext ==
  TypeInv /\ UndoInv /\ ReadInv /\ CommitInv /\ [Next]_vars => CommitInv'
<1> SUFFICES ASSUME TypeInv, UndoInv, ReadInv, CommitInv, [Next]_vars, pc' = "commit"
    PROVE  CommitInv'
  BY DEF CommitInv
<1> USE DEF Authorized
<1>0. ASSUME pc = "commit",
             UNCHANGED <<req, live, dir, root, config, seen>>, revoked' = revoked, late \subseteq late'
      PROVE  CommitInv'
  BY <1>0 DEF CommitInv
<1>1. CASE Authorize
  <2>1. ~committed
    BY <1>1 DEF Authorize, At, UndoInv
  <2> QED BY <1>1, <2>1 DEF Authorize, At, Go, Refuse, Answered, locals, own, files, server,
      world, ReadInv, CommitInv, Forming
<1>2. CASE Step /\ ~Authorize
  <2>1. DeliverStaged
    BY <1>2 DEF Step, At, Go, See, Answered, Refuse, Rest, Idle, Found, ReadConfig, ReadRoot,
      IssueReceipt, TakeReceipt, MakeRoot, VerifyRoot, InspectRoot, Enroll, Enumerate,
      InstallPolicy, WritePrepared, CheckPrepared, IndexNotes, Commit, PolicyBack, Publish,
      Denied, Fails, RootBack, Answer, Finish, TypeInv, HandlerShape, Request, Idling, Forming
  <2> QED BY <1>0, <2>1 DEF DeliverStaged, own, files, server, world, history
<1>3. CASE UNCHANGED vars
  BY <1>0, <1>3 DEF vars, op, locals, own, files, server, world, history
<1>v. req.vault \in Vault \/ pc \in Idling
  BY Requested DEF TypeInv, HandlerShape
<1>4. CASE Maintain
  BY <1>4, <1>v DEF Maintain, op, locals, own, files, world, history, CommitInv, Idling,
        TypeInv, RegistrationTypeOK
<1>f. CASE FormStep \/ Started \/ Crash \/ \E v \in Vault, who \in Session : Form(who, v)
  BY <1>f, Aside DEF Idling, Forming
<1>5. ASSUME NEW v \in Vault, NEW who \in Session, NEW t \in Token \cup {None},
             NEW kind \in {"preview", "mkdir", "confirm"}, NEW mode \in {"existing", "new"},
             Begin(kind, mode, who, v, t)
      PROVE  FALSE
  BY <1>5 DEF op, Begin
<1>6. ASSUME NEW v \in Vault, NEW n \in {0, Theirs},
             \/ Deliver(v) \/ WritePolicy(v) \/ RemovePolicy(v) \/ WriteNote(v, n)
      PROVE  CommitInv'
  BY <1>0, <1>6 DEF Deliver, WritePolicy, RemovePolicy, WriteNote, Act, op, locals, own, files,
    server, world, history
<1>7. ASSUME NEW v \in Vault, Reload(v) PROVE CommitInv'
  BY <1>7, <1>v DEF Reload, op, locals, own, files, history, CommitInv, Idling,
        TypeInv, RegistrationTypeOK
<1>8. ASSUME NEW v \in Vault, NEW d \in Slot,
             CliCreate(v) \/ CliRemove(v) \/ MoveRoot(v, d)
      PROVE  CommitInv'
  BY <1>8 DEF CliCreate, CliRemove, MoveRoot, Act, After, At, op, locals, own, files, server,
    CommitInv
<1>9. ASSUME (\E t \in Token : Expire(t)) \/ \E s \in Session : Revoke(s)
      PROVE  CommitInv'
  BY <1>9 DEF Expire, Revoke, op, locals, own, files, server, history, CommitInv, At
<1> QED BY <1>1, <1>2, <1>3, <1>4, <1>f, <1>5, <1>6, <1>7, <1>8, <1>9 DEF Next, Slot

(* The step that commits is the rename. *)
LEMMA CommitsStep == TypeInv /\ PreparedInv /\ CommitInv /\ [Next]_vars =>
  [At("commit") /\ ~committed /\ committed' =>
     /\ policy[root] = seen.prepared /\ seen.prepared # 0
     /\ Authorized /\ req.token \notin expired /\ req.vault \notin Running
     /\ dir[req.vault] = root \/ "dir" \in late
     /\ config'.entries = config.entries \cup {req.vault} \/ "config" \in late]_vars
<1> SUFFICES ASSUME TypeInv, PreparedInv, CommitInv, Next, pc = "commit", ~committed, committed'
    PROVE  /\ policy[root] = seen.prepared /\ seen.prepared # 0
           /\ Authorized /\ req.token \notin expired /\ req.vault \notin Running
           /\ dir[req.vault] = root \/ "dir" \in late
           /\ config'.entries = config.entries \cup {req.vault} \/ "config" \in late
  BY DEF At
<1>1. Commit
  <2>1. Step
    <3>1. ~(FormStep \/ Started \/ Crash \/ \E v \in Vault, who \in Session : Form(who, v))
      BY Aside
    <3> QED BY <3>1 DEF Next, Maintain, Begin, Reload, Deliver, WritePolicy, RemovePolicy,
          WriteNote, MoveRoot, CliCreate, CliRemove, Expire, Revoke, op, locals
  <2> QED BY <2>1 DEF Step, At, Fails, Refuse, Answered, locals, ReadConfig, ReadRoot,
        IssueReceipt, TakeReceipt, MakeRoot, VerifyRoot, InspectRoot, Enroll, Enumerate,
        InstallPolicy, CheckPrepared, IndexNotes, Authorize, Publish, Denied, PolicyBack,
        RootBack, Answer, Finish, DeliverStaged
<1>2. /\ policy[root] = seen.prepared /\ req.token \notin expired
      /\ config'.entries = seen.entries \cup {req.vault}
  <2>1. CASE policy[root] # seen.prepared \/ req.token \in expired
    <3>1. UNCHANGED committed
      BY <1>1, <2>1 DEF Commit, Refuse, Answered, locals
    <3> QED BY <3>1, Zenon
  <2>2. CASE ~(policy[root] # seen.prepared \/ req.token \in expired)
    BY <1>1, <2>2 DEF Commit
  <2> QED BY <2>1, <2>2
<1>3. mine # 0 \/ seen.before # 0
  BY DEF PreparedInv
<1>4. seen.prepared # 0
  BY <1>3 DEF PreparedInv, Parsed
<1> QED BY <1>2, <1>4 DEF CommitInv, Running

(* What a confirmed registration puts into the configuration has, at that moment, the
   policy that was prepared, for a session that still may, and is the directory that was
   previewed beside the entries that were there, unless others came in after the last
   look. *)
THEOREM CommittedWhole == Spec => CommitsWhole
<1>1. Init => TypeInv /\ UndoInv /\ PreparedInv /\ ReadInv /\ CommitInv
  BY TypeInit, BoundsAssumption DEF Init, UndoInv, PreparedInv, ReadInv, CommitInv, Nothing
<1> QED BY <1>1, TypeNext, UndoNext, PreparedNext, ReadNext, CommitNext, CommitsStep, PTL
      DEF Spec, CommitsWhole

-----------------------------------------------------------------------------
(* What the index of the request lacks of the directory it watches is a staged event. *)
Staging == {"policy", "prepared", "index", "authorize", "commit", "publish"}
StagedInv ==
  pc \in Staging /\ seen.watch = root /\ seen.index # note[root] => staged # {}

(* The enrolment came before the enumeration, and a note that is written later stages an
   event. *)
LEMMA StagedNext == TypeInv /\ StagedInv /\ [Next]_vars => StagedInv'
<1> SUFFICES ASSUME TypeInv, StagedInv, [Next]_vars, pc' \in Staging, seen'.watch = root',
                    seen'.index # note'[root']
    PROVE  staged' # {}
  BY DEF StagedInv
<1> USE DEF Staging, locals, own
<1>1. CASE Enumerate
  <2>1. seen \in Seen /\ UNCHANGED <<note, root>>
    BY <1>1 DEF Enumerate, See, files, TypeInv, RegistrationTypeOK
  <2> QED BY <1>1, <2>1 DEF Enumerate, See, Seen
<1>2. CASE IndexNotes
  <2>1. seen \in Seen /\ UNCHANGED <<note, root, staged>> /\ pc \in Staging
    BY <1>2 DEF IndexNotes, At, See, Refuse, Answered, files, TypeInv, RegistrationTypeOK
  <2>2. seen' = [seen EXCEPT !.index = IF @ = 0 THEN 0 ELSE note[root]]
    BY <1>2 DEF IndexNotes, See, Refuse, Answered
  <2> QED BY <2>1, <2>2 DEF StagedInv, Seen
<1>3. CASE InstallPolicy \/ CheckPrepared \/ Authorize \/ Commit
  <2>1. UNCHANGED <<note, root, staged>> /\ pc \in Staging
    BY <1>3 DEF InstallPolicy, WritePrepared, CheckPrepared, Authorize, Commit, At, Go, See,
      Refuse, Answered, files
  <2>2. seen'.watch = seen.watch /\ seen'.index = seen.index
    BY <1>3 DEF InstallPolicy, WritePrepared, CheckPrepared, Authorize, Commit, Go, See,
      Refuse, Answered, TypeInv, RegistrationTypeOK, Seen
  <2> QED BY <2>1, <2>2 DEF StagedInv
<1>4. CASE Step /\ ~(Enumerate \/ IndexNotes \/ InstallPolicy \/ CheckPrepared \/ Authorize
                     \/ Commit)
  <2>1. DeliverStaged
    BY <1>4 DEF Step, At, Go, See, Answered, Refuse, Rest, Idle, Idling, Forming, Found, ReadConfig, ReadRoot,
      IssueReceipt, TakeReceipt, MakeRoot, VerifyRoot, InspectRoot, Enroll, PolicyBack,
      Publish, Denied, Fails, RootBack, Answer, Finish, TypeInv, HandlerShape, Request
  <2> QED BY <2>1 DEF DeliverStaged
<1>5. CASE UNCHANGED vars \/ Maintain
  BY <1>5 DEF vars, op, files, Maintain, StagedInv
<1>f. CASE FormStep \/ Started \/ Crash \/ \E v \in Vault, who \in Session : Form(who, v)
  BY <1>f, Aside DEF Idling, Forming
<1>6. ASSUME NEW v \in Vault, NEW who \in Session, NEW t \in Token \cup {None},
             NEW kind \in {"preview", "mkdir", "confirm"}, NEW mode \in {"existing", "new"},
             Begin(kind, mode, who, v, t)
      PROVE  FALSE
  BY <1>6 DEF op, Begin
<1>7. ASSUME NEW v \in Vault, NEW n \in {0, Theirs}, WriteNote(v, n)
      PROVE  staged' # {}
  <2>1. CASE dir[v] = root
    BY <1>7, <2>1 DEF WriteNote
  <2>2. CASE dir[v] # root
    BY <1>7, <2>2 DEF WriteNote, StagedInv, TypeInv, RegistrationTypeOK
  <2> QED BY <2>1, <2>2
<1>8. ASSUME NEW v \in Vault, NEW d \in Slot,
             \/ Reload(v) \/ Deliver(v) \/ WritePolicy(v) \/ RemovePolicy(v)
             \/ CliCreate(v) \/ CliRemove(v) \/ MoveRoot(v, d)
      PROVE  staged' # {}
  BY <1>8 DEF Reload, Deliver, WritePolicy, RemovePolicy, MoveRoot, CliCreate, CliRemove,
    op, files, StagedInv
<1>9. ASSUME (\E t \in Token : Expire(t)) \/ \E s \in Session : Revoke(s)
      PROVE  staged' # {}
  BY <1>9 DEF Expire, Revoke, op, files, StagedInv
<1> QED BY <1>1, <1>2, <1>3, <1>4, <1>5, <1>f, <1>6, <1>7, <1>8, <1>9 DEF Next, Slot

(* What is about to be published is not served yet; and if its path moved since the last
   look, then not to the directory it watches. *)
PublishInv == pc \in {"commit", "publish"} =>
  live[req.vault] = None /\ (dir[req.vault] = seen.watch /\ seen.watch # None => seen.watch = root)

LEMMA PublishNext == TypeInv /\ PublishInv /\ [Next]_vars => PublishInv'
<1> SUFFICES ASSUME TypeInv, PublishInv, [Next]_vars, pc' \in {"commit", "publish"}
    PROVE  PublishInv'
  BY DEF PublishInv
<1> USE DEF locals, own, history
<1>v. req.vault \in Vault \/ pc \in Idling
  BY Requested DEF TypeInv, HandlerShape
<1>0. ASSUME pc \in {"commit", "publish"}, UNCHANGED <<req, live, dir, seen, root>> PROVE PublishInv'
  BY <1>0 DEF PublishInv
<1>1. CASE Authorize
  BY <1>1 DEF Authorize, At, Go, Refuse, Answered, files, server, PublishInv
<1>2. CASE Commit
  BY <1>0, <1>2 DEF Commit, At, Refuse, Answered, files, server
<1>3. CASE Step /\ ~Authorize /\ ~Commit
  <2>1. DeliverStaged
    BY <1>3 DEF Step, At, Go, See, Answered, Refuse, Rest, Idle, Idling, Forming, Found,
      ReadConfig, ReadRoot, IssueReceipt, TakeReceipt, MakeRoot, VerifyRoot, InspectRoot,
      Enroll, Enumerate, InstallPolicy, WritePrepared, CheckPrepared, IndexNotes, PolicyBack,
      Publish, Denied, Fails, RootBack, Answer, Finish, TypeInv, HandlerShape, Request
  <2> QED BY <1>0, <2>1 DEF DeliverStaged, files, server
<1>4. CASE UNCHANGED vars
  BY <1>0, <1>4 DEF vars, op, files, server
<1>5. CASE Maintain
  BY <1>5, <1>v DEF Maintain, op, files, PublishInv, Idling, TypeInv, RegistrationTypeOK
<1>f. CASE FormStep \/ Started \/ Crash \/ \E v \in Vault, who \in Session : Form(who, v)
  BY <1>f, Aside DEF Idling, Forming
<1>6. ASSUME NEW v \in Vault, NEW who \in Session, NEW t \in Token \cup {None},
             NEW kind \in {"preview", "mkdir", "confirm"}, NEW mode \in {"existing", "new"},
             Begin(kind, mode, who, v, t)
      PROVE  FALSE
  BY <1>6 DEF op, Begin
<1>7. ASSUME NEW v \in Vault, NEW n \in {0, Theirs},
             \/ Deliver(v) \/ WritePolicy(v) \/ RemovePolicy(v)
             \/ CliCreate(v) \/ CliRemove(v) \/ WriteNote(v, n)
      PROVE  PublishInv'
  BY <1>0, <1>7 DEF Deliver, WritePolicy, RemovePolicy, WriteNote, CliCreate, CliRemove, op,
    files, server
<1>8. ASSUME NEW v \in Vault, Reload(v) PROVE PublishInv'
  BY <1>8, <1>v DEF Reload, op, files, PublishInv, Idling, TypeInv, RegistrationTypeOK
<1>9. ASSUME NEW v \in Vault, NEW d \in Slot, MoveRoot(v, d) PROVE PublishInv'
  <2>1. dir \in [Vault -> Slot] /\ root \in Dir /\ req.vault \in Vault
        /\ pc \in {"commit", "publish"}
    BY <1>9, <1>v DEF MoveRoot, op, TypeInv, RegistrationTypeOK, HandlerShape, Holding, Idling
  <2>2. UNCHANGED <<live, req, seen, root>> /\ dir' = [dir EXCEPT ![v] = d]
    BY <1>9 DEF MoveRoot, op, server
  <2>3. CASE v = req.vault
    BY <1>9, <2>1, <2>2, <2>3 DEF MoveRoot, Unused, PublishInv
  <2>4. CASE v # req.vault
    BY <2>1, <2>2, <2>4 DEF PublishInv
  <2> QED BY <2>3, <2>4
<1>10. ASSUME (\E t \in Token : Expire(t)) \/ \E s \in Session : Revoke(s)
       PROVE  PublishInv'
  BY <1>0, <1>10 DEF Expire, Revoke, op, files, server
<1> QED BY <1>1, <1>2, <1>3, <1>4, <1>5, <1>f, <1>6, <1>7, <1>8, <1>9, <1>10 DEF Next, Slot

(* What the form makes is not served before it is done. *)
FormInv == pc \in Forming => live[req.vault] = None

LEMMA FormNext == TypeInv /\ FormInv /\ [Next]_vars => FormInv'
<1> SUFFICES ASSUME TypeInv, FormInv, [Next]_vars, pc' \in Forming PROVE live'[req'.vault] = None
  BY DEF FormInv
<1> USE DEF Forming, locals
<1>1. CASE FormStep
  BY <1>1 DEF FormStep, FormPolicy, FormConfig, FormPublish, FormFails, FormBack, At, Go, Rest,
    Idle, server, FormInv
<1>2. CASE Step
  <2>1. DeliverStaged
    BY <1>2 DEF Step, At, Go, See, Answered, Refuse, Rest, Idle, Idling, Found, ReadConfig,
      ReadRoot, IssueReceipt, TakeReceipt, MakeRoot, VerifyRoot, InspectRoot, Enroll, Enumerate,
      InstallPolicy, WritePrepared, CheckPrepared, IndexNotes, Authorize, Commit, PolicyBack,
      Publish, Denied, Fails, RootBack, Answer, Finish, TypeInv, HandlerShape, Request
  <2> QED BY <2>1 DEF DeliverStaged, server, FormInv
<1>3. CASE Maintain \/ Crash \/ Started \/ UNCHANGED vars
  BY <1>3 DEF Maintain, Crash, Started, Idle, At, Go, op, server, vars, FormInv
<1>4. ASSUME NEW v \in Vault, NEW who \in Session, NEW t \in Token \cup {None},
             NEW kind \in {"preview", "mkdir", "confirm"}, NEW mode \in {"existing", "new"},
             Begin(kind, mode, who, v, t)
      PROVE  FALSE
  BY <1>4 DEF Begin
<1>5. ASSUME NEW v \in Vault, NEW who \in Session, Form(who, v)
      PROVE  live'[req'.vault] = None
  BY <1>5 DEF Form, server
<1>6. ASSUME NEW v \in Vault, NEW n \in {0, Theirs}, NEW d \in Slot,
             \/ Reload(v) \/ Deliver(v) \/ WritePolicy(v) \/ RemovePolicy(v)
             \/ CliCreate(v) \/ CliRemove(v) \/ WriteNote(v, n) \/ MoveRoot(v, d)
      PROVE  live'[req'.vault] = None
  BY <1>6 DEF Reload, Deliver, WritePolicy, RemovePolicy, WriteNote, MoveRoot, CliCreate,
    CliRemove, op, server, FormInv
<1>7. ASSUME (\E t \in Token : Expire(t)) \/ \E s \in Session : Revoke(s)
      PROVE  live'[req'.vault] = None
  BY <1>7 DEF Expire, Revoke, op, server, FormInv
<1> QED BY <1>1, <1>2, <1>3, <1>4, <1>5, <1>6, <1>7 DEF Next, Slot

(* Only what is served is watched, and what its index lacks is on its way. *)
Caught == \A v \in Vault :
  /\ live[v] = None => watch[v] = None
  /\ /\ live[v] # None /\ watch[v] # None /\ watch[v] = dir[v]
     /\ live[v].index # note[dir[v]]
     => v \in kernel \cup signal

LEMMA CaughtNext ==
  TypeInv /\ StagedInv /\ PublishInv /\ FormInv /\ Caught /\ [Next]_vars => Caught'
<1> SUFFICES ASSUME TypeInv, StagedInv, PublishInv, FormInv, Caught, [Next]_vars PROVE Caught'
  OBVIOUS
<1> USE NoneAssumption
<1> USE DEF Caught
<1>t. /\ dir \in [Vault -> Slot] /\ note \in [Dir -> Version] /\ watch \in [Vault -> Slot]
      /\ live \in [Vault -> Serving \cup {None}] /\ seen \in Seen /\ None \notin Serving
      /\ req.vault \in Vault \/ pc \in Idling
  BY ServingAssumption, Requested DEF TypeInv, RegistrationTypeOK, HandlerShape
<1>0. ASSUME UNCHANGED <<dir, note, live, watch, kernel, signal>> PROVE Caught'
  BY <1>0
<1>1. CASE Publish
  <2>1. /\ req.vault \in Vault /\ live[req.vault] = None /\ watch[req.vault] = None
        /\ root \in Dir /\ UNCHANGED <<dir, note>> /\ staged \subseteq {"kernel", "signal"}
    BY <1>1, <1>t DEF Idling, Publish, At, PublishInv, TypeInv, RegistrationTypeOK, HandlerShape,
      Holding, files
  <2>2. /\ live' = [live EXCEPT ![req.vault] =
             [policy |-> Parsed, source |-> seen.prepared, index |-> seen.index]]
        /\ watch' = [watch EXCEPT ![req.vault] = seen.watch]
    BY <1>1, <1>t, <2>1 DEF Publish, Installed
  <2>3. /\ kernel \subseteq kernel' /\ signal \subseteq signal'
        /\ staged # {} => req.vault \in kernel' \cup signal'
    BY <1>1, <2>1 DEF Publish, Installed
  <2>4. seen.watch # None /\ dir[req.vault] = seen.watch /\ seen.index # note[seen.watch]
          => staged # {}
    BY <1>1 DEF Publish, At, PublishInv, StagedInv, Staging
  <2> HIDE DEF Caught
  <2>5. SUFFICES ASSUME NEW v \in Vault
                 PROVE  /\ live'[v] = None => watch'[v] = None
                        /\ /\ live'[v] # None /\ watch'[v] # None /\ watch'[v] = dir'[v]
                           /\ live'[v].index # note'[dir'[v]]
                           => v \in kernel' \cup signal'
    BY DEF Caught
  <2>6. CASE v = req.vault
    <3>1. live'[v] = [policy |-> Parsed, source |-> seen.prepared, index |-> seen.index]
          /\ watch'[v] = seen.watch
      BY <1>t, <2>2, <2>6
    <3>2. live'[v].index = seen.index
      BY <3>1
    <3>3. live'[v] # None
      <4>1. Parsed \in Version
        BY <1>t, BoundsAssumption DEF Parsed, Seen, Version, TypeInv, RegistrationTypeOK
      <4> QED BY <1>t, <3>1, <4>1 DEF Seen, Serving
    <3> QED BY <2>1, <2>3, <2>4, <2>6, <3>1, <3>2, <3>3
  <2>7. CASE v # req.vault
    BY <1>t, <2>1, <2>2, <2>3, <2>7 DEF Caught
  <2> QED BY <2>6, <2>7
<1>2. CASE Maintain
  <2>1. \A v \in Vault : NoteAt(dir[v]) \in Version
    BY <1>t, Looked DEF TypeInv, RegistrationTypeOK
  <2>2. UNCHANGED <<dir, note, watch, kernel>>
    BY <1>2 DEF Maintain, files
  <2>3. \A v \in Vault :
          IF v \in signal /\ live[v] # None
          THEN live'[v] # None /\ live'[v].index = NoteAt(dir[v])
          ELSE live'[v] = live[v]
    BY <1>2, <1>t, <2>1 DEF Maintain, Serving
  <2> QED BY <1>t, <2>2, <2>3 DEF NoteAt
<1>3. CASE Crash
  BY <1>3, <1>t DEF Crash
<1>15. CASE Started
  <2>1. UNCHANGED <<dir, note>>
    BY <1>15 DEF Started, files
  <2>2. \A v \in Vault :
          IF v \in Running
          THEN watch'[v] = dir[v] /\ live'[v].index = NoteAt(dir[v])
          ELSE watch'[v] = None
    BY <1>15 DEF Started
  <2>3. \A v \in Vault : v \in Running => live'[v] # None
    <3>1. \A v \in Vault : NoteAt(dir[v]) \in Version /\ PolicyAt(dir[v]) \in Version
      BY <1>t, Looked DEF TypeInv, RegistrationTypeOK
    <3>2. \A v \in Vault : v \in Running => live[v].policy \in Version
      BY <1>t DEF Running, Serving
    <3> QED BY <1>15, <1>t, <3>1, <3>2 DEF Started, Serving
  <2> QED BY <1>t, <2>1, <2>2, <2>3 DEF NoteAt
<1>4. ASSUME NEW v \in Vault, NEW who \in Session, Form(who, v) PROVE Caught'
  <2>1. PICK d \in Dir : Unused(d) /\ dir' = [dir EXCEPT ![v] = d]
    BY <1>4 DEF Form
  <2> QED BY <1>4, <1>t, <2>1 DEF Form, Unused, server
<1>16. CASE FormPublish
  <2>1. req.vault \in Vault /\ live[req.vault] = None /\ watch[req.vault] = None
    BY <1>16, <1>t DEF FormPublish, At, FormInv, Forming, Idling
  <2>2. /\ UNCHANGED <<dir, note, watch, kernel, signal>>
        /\ \A w \in Vault : w # req.vault => live'[w] = live[w]
    BY <1>16, <1>t DEF FormPublish, files
  <2> QED BY <2>1, <2>2
<1>17. CASE FormBack
  <2> DEFINE d == dir[req.vault]
  <2>1. req.vault \in Vault /\ UNCHANGED <<live, watch, signal>>
    BY <1>17, <1>t DEF FormBack, At, Idling
  <2>2. dir' = dir \/ dir' = [dir EXCEPT ![req.vault] = None]
    BY <1>17 DEF FormBack, files
  <2>3. \/ UNCHANGED <<note, kernel>>
        \/ /\ kernel' = kernel \cup {w \in Vault : watch[w] = d}
           /\ \A e \in Dir : e # d => note'[e] = note[e]
    BY <1>17, <1>t DEF FormBack, files
  <2> HIDE DEF d
  <2> QED BY <1>t, <2>1, <2>2, <2>3 DEF Slot
<1>18. CASE FormPolicy \/ FormConfig \/ FormFails
  BY <1>0, <1>18 DEF FormPolicy, FormConfig, FormFails, files, server
<1>5. ASSUME NEW v \in Vault, Reload(v) PROVE Caught'
  <2>1. PolicyAt(dir[v]) \in Version
    BY <1>t, Looked DEF TypeInv, RegistrationTypeOK
  <2>2. UNCHANGED <<dir, note, watch, kernel, signal>> /\ live[v] # None
    BY <1>5 DEF Reload, files
  <2>3. live'[v] # None /\ live'[v].index = live[v].index
    BY <1>5, <1>t, <2>1, <2>2 DEF Reload, Serving
  <2>4. \A w \in Vault : w # v => live'[w] = live[w]
    BY <1>5, <1>t DEF Reload
  <2> QED BY <2>2, <2>3, <2>4
<1>6. ASSUME NEW v \in Vault, Deliver(v) PROVE Caught'
  BY <1>6 DEF Deliver, files
<1>7. ASSUME NEW v \in Vault, NEW n \in {0, Theirs}, WriteNote(v, n) PROVE Caught'
  BY <1>7, <1>t DEF WriteNote
<1>8. ASSUME NEW v \in Vault, NEW d \in Slot, MoveRoot(v, d) PROVE Caught'
  BY <1>8, <1>t DEF MoveRoot, server
<1>9. CASE MakeRoot
  <2>1. UNCHANGED dir \/ \E d \in Dir : Unused(d) /\ dir' = [dir EXCEPT ![req.vault] = d]
    BY <1>9 DEF MakeRoot
  <2> QED BY <1>9, <1>t, <2>1 DEF MakeRoot, At, Unused, server
<1>10. CASE RootBack
  BY <1>10, <1>t DEF RootBack, At, server
<1>11. CASE UNCHANGED vars
  BY <1>0, <1>11 DEF vars, files, server
<1>12. CASE Step /\ ~(Publish \/ MakeRoot \/ RootBack)
  <2>1. UNCHANGED <<dir, note, live, watch, kernel, signal>>
    BY <1>12 DEF Step, ReadConfig, ReadRoot, IssueReceipt, TakeReceipt, VerifyRoot,
      InspectRoot, Enroll, Enumerate, InstallPolicy, CheckPrepared, IndexNotes, Authorize,
      Commit, Denied, Fails, PolicyBack, Answer, Finish, DeliverStaged, files, server
  <2> QED BY <1>0, <2>1
<1>13. ASSUME \E v \in Vault, who \in Session, t \in Token \cup {None},
                kind \in {"preview", "mkdir", "confirm"}, mode \in {"existing", "new"} :
                  Begin(kind, mode, who, v, t)
       PROVE  Caught'
  BY <1>0, <1>13 DEF Begin, files, server
<1>14. ASSUME \/ \E v \in Vault : WritePolicy(v) \/ RemovePolicy(v) \/ CliCreate(v) \/ CliRemove(v)
              \/ \E t \in Token : Expire(t)
              \/ \E s \in Session : Revoke(s)
       PROVE  Caught'
  BY <1>0, <1>14 DEF WritePolicy, RemovePolicy, CliCreate, CliRemove, Expire, Revoke, files, server
<1> QED BY <1>1, <1>2, <1>3, <1>4, <1>5, <1>6, <1>7, <1>8, <1>9, <1>10, <1>11, <1>12, <1>13,
      <1>14, <1>15, <1>16, <1>17, <1>18 DEF Next, FormStep, Slot

(* No change of a note falls between the enumeration, the enrolment of the watcher and
   the publication: what the index of a watched vault lacks is on its way to it. *)
THEOREM NoEventMissed == Spec => []IndexCatchable
<1>1. Init => TypeInv /\ StagedInv /\ PublishInv /\ FormInv /\ Caught
  BY TypeInit DEF Init, StagedInv, Staging, PublishInv, FormInv, Forming, Caught
<1>2. Caught => IndexCatchable
  BY DEF Caught, IndexCatchable, Running
<1> QED BY <1>1, <1>2, TypeNext, StagedNext, PublishNext, FormNext, CaughtNext, PTL DEF Spec

=============================================================================
