------------------------ MODULE McpCredentialsProofs ------------------------
(***************************************************************************)
(* Theorems about McpCredentials and McpRegistry, for any documents, any   *)
(* number of connections, of refreshes and of grants.                      *)
(***************************************************************************)
EXTENDS McpCredentials, TLAPS

USE RegistryAssumption, CredentialAssumption

\* The bounds are numbers, and there is a grant to number.
LEMMA Bounds == MaxWrites \in Nat /\ MaxAuth \in Nat /\ MaxAuth # 0 /\ MaxIssue \in Nat
  OBVIOUS

-----------------------------------------------------------------------------
(* The inductive invariant, part by part.                                 *)

\* A copy that is served parses, and one whose stamp is the file's is the file as it is,
\* until its mode changes behind the registry's back.
CopyIsGood ==
  /\ known <= file.stamp
  /\ served # None => Parses(served)
  /\ file.present /\ ~ skipped /\ known = file.stamp =>
       /\ file.private /\ Parses(file.doc) => served = file.doc
       /\ ~ file.private => served = None

\* A connection that is under way uses OAuth; a consent has a grant to write.
UnderWay ==
  /\ \A c \in Conn : pc[c] \in {"asking", "granted", "sent"} => conf[c] # 0
  /\ script = "consented" => file.doc.auth + 1 \in Grant
  /\ script \in {"written", "done"} => file.doc.auth # 0

\* Before the script runs, all that is known of the server names one grant.
OneGrant ==
  script = "off" =>
    /\ served # None => served.auth = file.doc.auth
    /\ \A c \in Conn : Open(c) => conf[c] = file.doc.auth
    /\ row # None => row.refresh.grant = file.doc.auth /\ row.access.grant = file.doc.auth

\* After it, unless someone was in its way, all that is in use names the new grant.
NewGrant ==
  script = "done" /\ ~ raced =>
    /\ ~ cookie /\ login = "none"
    /\ \A c \in Conn : Open(c) => conf[c] = file.doc.auth /\ ~ sends[c]
    /\ row # None => row.refresh.grant = file.doc.auth /\ row.access.grant = file.doc.auth

\* What a connection sends or asks with is of the grant it was opened with.
OwnGrant ==
  script = "off" \/ (script = "done" /\ ~ raced) =>
    \A c \in Conn : pc[c] \in {"asking", "granted", "sent"} =>
      using[c].grant = file.doc.auth

\* No grant in use has been ended.
GrantLives ==
  ~ reused =>
    /\ script = "off" => dead = {}
    /\ script = "consented" => file.doc.auth + 1 \notin dead
    /\ script \in {"written", "done"} => file.doc.auth \notin dead

Calm == ~ torn /\ ~ raced /\ script \in {"off", "done"} /\ file.doc.auth # 0

\* A rotating server's latest refresh token is the one the daemon holds, or it is on its
\* way to exactly one connection, and then nobody else can have asked with it.
LatestIsHeld ==
  Calm /\ server # "keeps" =>
    /\ Held.issue <= issued[file.doc.auth]
    /\ \A c \in Conn : pc[c] = "asking" => using[c].issue <= Held.issue
    /\ \A c \in Conn : pc[c] = "granted" => Held.issue < issued[file.doc.auth]
    /\ \A c, d \in Conn : pc[c] = "granted" /\ pc[d] = "granted" => c = d
    /\ (\A c \in Conn : pc[c] # "granted") => Held.issue = issued[file.doc.auth]

CredentialInv ==
  /\ TypeOK /\ CopyIsGood /\ UnderWay /\ OneGrant /\ NewGrant /\ OwnGrant
  /\ GrantLives /\ LatestIsHeld

-----------------------------------------------------------------------------
\* It holds at the start.
LEMMA CredentialInit == Init => CredentialInv
  <1> SUFFICES ASSUME Init PROVE CredentialInv
    OBVIOUS
  <1> USE DEF Init
  <1>0. PICK d \in Docs : Parses(d) /\
          file = [present |-> TRUE, doc |-> d, private |-> TRUE, stamp |-> 1]
    OBVIOUS
  <1>1. file.doc \in Doc /\ file.doc.auth \in 0..MaxAuth /\ file.stamp = 1
    BY <1>0 DEF Doc
  <1>2. RegistryTypeOK
    <2>1. file \in [present : BOOLEAN, doc : Doc, private : BOOLEAN, stamp : 1..(MaxWrites + 1)]
      BY <1>0, <1>1, Bounds
    <2>2. 0 \in 0..(MaxWrites + 1) BY Bounds
    <2>3. QED BY <2>1, <2>2 DEF RegistryTypeOK
  <1>3. First(1) \in Token /\ alive \subseteq Token
    BY <1>1, Bounds DEF First, Token, Grant
  <1>4. TypeOK
    <2>1. issued \in [Grant -> 0..MaxIssue] /\ conf \in [Conn -> 0..MaxAuth]
      BY Bounds
    <2>2. dead \subseteq Grant /\ timed \subseteq Grant OBVIOUS
    <2>3. {sends, retried} \subseteq [Conn -> BOOLEAN] OBVIOUS
    <2>4. QED BY <1>1, <1>2, <1>3, <2>1, <2>2, <2>3 DEF TypeOK
  <1>5. CopyIsGood BY <1>1 DEF CopyIsGood
  <1>6. UnderWay /\ OneGrant /\ NewGrant /\ OwnGrant /\ GrantLives
    BY DEF UnderWay, OneGrant, NewGrant, OwnGrant, GrantLives, Open
  <1>7. Held = First(file.doc.auth) BY DEF Held
  <1>8. LatestIsHeld
    BY <1>1, <1>7 DEF LatestIsHeld, Calm, First, Grant
  <1>9. QED BY <1>4, <1>5, <1>6, <1>8 DEF CredentialInv

-----------------------------------------------------------------------------
(* Types.                                                                  *)

\* A look at the servers keeps the registry's types.
LEMMA LookType ==
  ASSUME RegistryTypeOK, Look
  PROVE  /\ RegistryTypeOK' /\ file' = file
         /\ served' # None => served' \in Doc /\ served'.auth \in 0..MaxAuth
  BY DEF RegistryTypeOK, Look, Refreshed, Load, Stamp, Doc

\* A write of the file keeps its type and gives it a stamp of its own.
LEMMA FileType ==
  ASSUME RegistryTypeOK, NEW d \in Doc, NEW p \in BOOLEAN, Write(d, p)
  PROVE  RegistryTypeOK' /\ file'.doc = d /\ file'.stamp = file.stamp + 1 /\ file'.private = p
  <1>1. file.stamp + 1 \in 1..(MaxWrites + 1) BY Bounds DEF RegistryTypeOK, Write
  <1>2. QED BY <1>1 DEF RegistryTypeOK, Write, registry

\* What a connection presents or asks with is a token.
LEMMA TokenType ==
  ASSUME TypeOK, NEW c \in Conn, conf[c] # 0
  PROVE  Access(c) \in Token /\ Refresh(c) \in Token
  <1>1. First(conf[c]) \in Token BY DEF TypeOK, First, Token, Grant
  <1>2. row # None => row.access \in Token /\ row.refresh \in Token
    BY DEF TypeOK, Row
  <1>3. QED BY <1>1, <1>2 DEF Access, Refresh

\* Every action keeps the types.
LEMMA TypeNext ==
  ASSUME CredentialInv, Next
  PROVE  TypeOK'
  <1> USE DEF Go, auth, store, conns, history, config, registry
  <1>0. TypeOK /\ UnderWay /\ RegistryTypeOK BY DEF CredentialInv, TypeOK
  <1>1. ASSUME EditFile PROVE TypeOK'
    <2>1. CASE Edit
      <3>1. PICK d \in Docs : Write(d, file.private) BY <2>1 DEF Edit
      <3>2. RegistryTypeOK' BY <1>0, <3>1, FileType DEF RegistryTypeOK
      <3>3. QED BY <1>0, <1>1, <3>2 DEF EditFile, TypeOK
    <2>2. CASE Chmod \/ Remove
      <3>1. RegistryTypeOK' BY <1>0, <2>2 DEF RegistryTypeOK, Chmod, Remove
      <3>2. QED BY <1>0, <1>1, <3>1 DEF EditFile, TypeOK
    <2>3. QED BY <1>1, <2>1, <2>2 DEF EditFile
  <1>2. ASSUME LookUp PROVE TypeOK'
    <2>1. CASE Look BY <1>0, <1>2, <2>1, LookType DEF LookUp, TypeOK
    <2>2. CASE LookFails
      <3>1. RegistryTypeOK' BY <1>0, <2>2 DEF RegistryTypeOK, LookFails
      <3>2. QED BY <1>0, <1>2, <3>1 DEF LookUp, TypeOK
    <2>3. QED BY <1>2, <2>1, <2>2 DEF LookUp
  <1>3. ASSUME NEW c \in Conn, Attach(c) PROVE TypeOK'
    BY <1>0, <1>3, LookType DEF Attach, TypeOK, UseServed
  <1>4. ASSUME NEW c \in Conn, Present(c) \/ AskRefresh(c) PROVE TypeOK'
    <2>1. Access(c) \in Token /\ Refresh(c) \in Token
      BY <1>0, <1>4, TokenType DEF Present, AskRefresh
    <2>2. RegistryTypeOK' BY <1>0, <1>4 DEF Present, AskRefresh, RegistryTypeOK
    <2>3. QED BY <1>0, <1>4, <2>1, <2>2 DEF Present, AskRefresh, TypeOK
  <1>5. ASSUME NEW c \in Conn, Answered(c) PROVE TypeOK'
    <2>1. RegistryTypeOK' BY <1>0, <1>5 DEF Answered, RegistryTypeOK
    <2>2. QED BY <1>0, <1>5, <2>1 DEF Answered, TypeOK
  <1>6. ASSUME NEW c \in Conn, Unauthorised(c) PROVE TypeOK'
    <2>1. Refresh(c) \in Token BY <1>0, <1>6, TokenType DEF Unauthorised, UnderWay
    <2>2. RegistryTypeOK' BY <1>0, <1>6 DEF Unauthorised, RegistryTypeOK
    <2>3. QED BY <1>0, <1>6, <2>1, <2>2 DEF Unauthorised, TypeOK
  <1>7. ASSUME NEW c \in Conn, Refreshes(c) PROVE TypeOK'
    <2>1. using[c].grant \in Grant /\ issued[using[c].grant] \in 0..MaxIssue
      BY <1>0 DEF TypeOK, Token
    <2>2. [grant |-> using[c].grant, issue |-> issued[using[c].grant] + 1] \in Token
      BY <1>7, <2>1 DEF Refreshes, Token
    <2>3. RegistryTypeOK' BY <1>0, <1>7 DEF Refreshes, RegistryTypeOK
    <2>4. QED BY <1>0, <1>7, <2>1, <2>2, <2>3 DEF Refreshes, TypeOK
  <1>8. ASSUME NEW c \in Conn, InvalidGrant(c) PROVE TypeOK'
    <2>1. using[c].grant \in Grant BY <1>0 DEF TypeOK, Token
    <2>2. RegistryTypeOK' BY <1>0, <1>8 DEF InvalidGrant, RegistryTypeOK
    <2>3. QED BY <1>0, <1>8, <2>1, <2>2 DEF InvalidGrant, TypeOK
  <1>9. ASSUME NEW c \in Conn, Save(c) PROVE TypeOK'
    <2>1. using[c] \in Token /\ NewRefresh(c) \in Token
          /\ [grant |-> using[c].grant, issue |-> issued[using[c].grant]] \in Token
      BY <1>0 DEF TypeOK, Token, NewRefresh
    <2>2. row' \in Row BY <1>9, <2>1 DEF Save, KeptRefresh, Row
    <2>3. RegistryTypeOK' BY <1>0, <1>9 DEF Save, RegistryTypeOK
    <2>4. QED BY <1>0, <1>9, <2>1, <2>2, <2>3 DEF Save, TypeOK
  <1>10. ASSUME NEW t \in alive, Expire(t) PROVE TypeOK'
    <2>1. RegistryTypeOK' BY <1>0, <1>10 DEF Expire, RegistryTypeOK
    <2>2. QED BY <1>0, <1>10, <2>1 DEF Expire, TypeOK
  <1>11. ASSUME NEW c \in Conn, HangUp(c) PROVE TypeOK'
    <2>1. RegistryTypeOK' BY <1>0, <1>11 DEF HangUp, RegistryTypeOK
    <2>2. QED BY <1>0, <1>11, <2>1 DEF HangUp, TypeOK
  <1>12. ASSUME Crash PROVE TypeOK'
    <2>1. RegistryTypeOK' BY <1>0, <1>12 DEF Crash, ForgetConfig, RegistryTypeOK
    <2>2. QED BY <1>0, <1>12, <2>1 DEF Crash, TypeOK
  <1>13. ASSUME RequestLogin \/ PressButton \/ Submit \/ Logout PROVE TypeOK'
    <2>1. RegistryTypeOK'
      BY <1>0, <1>13, LookType DEF RequestLogin, PressButton, Submit, Logout
    <2>2. QED BY <1>0, <1>13, <2>1
      DEF RequestLogin, PressButton, Submit, Logout, UseServed, TypeOK
  <1>14. ASSUME Consent PROVE TypeOK'
    <2>1. RegistryTypeOK' BY <1>0, <1>14 DEF Consent, RegistryTypeOK
    <2>2. First(file.doc.auth + 1) \in Token BY <1>14 DEF Consent, First, Token
    <2>3. file.doc.auth \in 0..MaxAuth BY <1>0 DEF RegistryTypeOK, Doc
    <2>4. alive' \subseteq Token BY <1>0, <1>14, <2>2 DEF Consent, TypeOK
    <2>5. dead' \subseteq Grant
      <3> DEFINE g == file.doc.auth + 1
      <3>1. dead' \in {dead, dead \cup ({g - 1} \ {0})} BY <1>14 DEF Consent
      <3>2. ({g - 1} \ {0}) \subseteq Grant BY <2>3 DEF Grant
      <3> HIDE DEF g
      <3>3. QED BY <1>0, <3>1, <3>2 DEF TypeOK
    <2>6. QED BY <1>0, <1>14, <2>1, <2>4, <2>5 DEF Consent, TypeOK
  <1>15. ASSUME Authorise PROVE TypeOK'
    <2>1. CASE WriteGrant /\ script = "consented"
      <3>1. [file.doc EXCEPT !.auth = @ + 1] \in Doc
        BY <1>0, <2>1 DEF UnderWay, RegistryTypeOK, Doc, Grant
      <3>2. RegistryTypeOK' BY <1>0, <2>1, <3>1, FileType DEF WriteGrant
      <3>3. QED BY <1>0, <1>15, <2>1, <3>2 DEF Authorise, WriteThenClear, TypeOK
    <2>2. CASE ClearRows /\ UNCHANGED config
      <3>1. RegistryTypeOK' BY <1>0, <2>2 DEF RegistryTypeOK
      <3>2. QED BY <1>0, <1>15, <2>2, <3>1 DEF Authorise, WriteThenClear, ClearRows, TypeOK
    <2>3. QED BY <1>15, <2>1, <2>2 DEF Authorise, WriteThenClear
  <1>16. QED
    BY <1>1, <1>2, <1>3, <1>4, <1>5, <1>6, <1>7, <1>8, <1>9, <1>10, <1>11, <1>12, <1>13,
       <1>14, <1>15 DEF Next, Step

-----------------------------------------------------------------------------
(* The registry's copy.                                                    *)

\* Every action keeps the registry's copy in step with the file.
LEMMA CopyNext ==
  ASSUME CredentialInv, Next
  PROVE  CopyIsGood'
  <1> USE DEF auth, store, conns, history, config, registry, CopyIsGood
  <1>0. /\ CopyIsGood /\ RegistryTypeOK
        /\ known \in Nat /\ file.stamp \in Nat \ {0} /\ None \notin Doc /\ file.doc \in Doc
    BY Bounds DEF CredentialInv, TypeOK, RegistryTypeOK
  <1>1. ASSUME Look PROVE CopyIsGood'
    BY <1>0, <1>1 DEF Look, Refreshed, Load, Stamp, Changed
  <1>2. ASSUME UNCHANGED config PROVE CopyIsGood'
    BY <1>0, <1>2
  <1>3. ASSUME NEW d, NEW p, Write(d, p) PROVE CopyIsGood'
    BY <1>0, <1>3 DEF Write
  <1>4. ASSUME LookFails \/ Chmod \/ Remove \/ ForgetConfig PROVE CopyIsGood'
    <2>1. CASE LookFails BY <1>0, <2>1 DEF LookFails
    <2>2. CASE Chmod
      <3>1. file'.stamp = file.stamp /\ file'.present = file.present
        BY <1>0, <2>2 DEF Chmod, RegistryTypeOK
      <3>2. QED BY <1>0, <2>2, <3>1 DEF Chmod
    <2>3. CASE Remove
      <3>1. file'.stamp = file.stamp /\ ~ file'.present
        BY <1>0, <2>3 DEF Remove, RegistryTypeOK
      <3>2. QED BY <1>0, <2>3, <3>1 DEF Remove
    <2>4. CASE ForgetConfig BY <1>0, <2>4 DEF ForgetConfig
    <2>5. QED BY <1>4, <2>1, <2>2, <2>3, <2>4
  <1>5. CASE EditFile BY <1>3, <1>4, <1>5 DEF EditFile, Edit
  <1>6. CASE LookUp BY <1>1, <1>4, <1>6 DEF LookUp
  <1>7. CASE \E c \in Conn : Attach(c) BY <1>1, <1>7 DEF Attach
  <1>8. CASE Crash BY <1>4, <1>8 DEF Crash
  <1>9. CASE RequestLogin \/ PressButton \/ Submit \/ Logout
    BY <1>1, <1>9 DEF RequestLogin, PressButton, Submit, Logout
  <1>10. CASE Authorise BY <1>2, <1>3, <1>10 DEF Authorise, WriteThenClear, WriteGrant
  <1>11. CASE \/ \E c \in Conn : \/ Present(c) \/ AskRefresh(c) \/ Answered(c) \/ Unauthorised(c)
                                 \/ Refreshes(c) \/ InvalidGrant(c) \/ Save(c) \/ HangUp(c)
              \/ \E t \in alive : Expire(t)
              \/ Consent
    BY <1>2, <1>11 DEF Present, AskRefresh, Answered, Unauthorised, Refreshes, InvalidGrant,
                     Save, HangUp, Expire, Consent
  <1>12. QED
    BY <1>5, <1>6, <1>7, <1>8, <1>9, <1>10, <1>11 DEF Next, Step

-----------------------------------------------------------------------------
(* The grants.                                                             *)

\* Before the script runs, a look at the servers finds one with the grant of the file.
LEMMA LookGrant ==
  ASSUME TypeOK, OneGrant, Look, script = "off", served' # None
  PROVE  served'.auth = file.doc.auth
  BY DEF OneGrant, Look, Refreshed, Load

\* Nobody but an editor and the script changes the file.
LEMMA FileStays ==
  ASSUME TypeOK, Next
  PROVE  /\ file' = file \/ EditFile \/ Authorise
         /\ file'.doc.auth = file.doc.auth \/ (script = "consented" /\ script' = "written")
         /\ script' = script \/ Consent \/ Authorise
  <1> USE DEF auth, store, conns, history, config, registry
  <1>0. RegistryTypeOK BY DEF TypeOK
  <1>1. CASE EditFile
    <2>1. CASE Edit
      <3>1. PICK d \in Docs : d.auth = file.doc.auth /\ Write(d, file.private)
        BY <2>1 DEF Edit
      <3>2. QED BY <1>0, <1>1, <3>1 DEF EditFile, Write
    <2>2. CASE Chmod \/ Remove
      BY <1>0, <1>1, <2>2 DEF EditFile, Chmod, Remove, RegistryTypeOK
    <2>3. QED BY <1>1, <2>1, <2>2 DEF EditFile
  <1>2. CASE Authorise BY <1>0, <1>2 DEF Authorise, WriteThenClear, ClearRows
  <1>3. CASE LookUp BY <1>3 DEF LookUp, Look, LookFails
  <1>4. CASE \E c \in Conn : Step(c)
    BY <1>4 DEF Step, Attach, Present, AskRefresh, Answered, Unauthorised, Refreshes,
                InvalidGrant, Save, HangUp, Look
  <1>5. CASE (\E t \in alive : Expire(t)) \/ Crash \/ Consent
    BY <1>5 DEF Expire, Crash, Consent, ForgetConfig
  <1>6. CASE RequestLogin \/ PressButton \/ Submit \/ Logout
    BY <1>6 DEF RequestLogin, PressButton, Submit, Logout, Look
  <1>7. QED BY <1>1, <1>2, <1>3, <1>4, <1>5, <1>6 DEF Next

\* What the script does to the file and to where it stands.
LEMMA ScriptMoves ==
  ASSUME TypeOK, Authorise
  PROVE  \/ /\ script = "consented" /\ script' = "written"
            /\ file'.doc.auth = file.doc.auth + 1
            /\ UNCHANGED <<store, raced, auth, timed, conns, login, torn, reused, served>>
         \/ /\ script = "written" /\ script' = "done"
            /\ ClearRows
            /\ UNCHANGED <<config, auth, timed, conns, login, torn, reused>>
  <1>1. file.doc \in Doc BY DEF TypeOK, RegistryTypeOK
  <1>2. CASE script = "consented"
    BY <1>1, <1>2 DEF Authorise, WriteThenClear, WriteGrant, Write, registry, Doc
  <1>3. CASE script = "written"
    BY <1>3 DEF Authorise, WriteThenClear
  <1>4. QED BY <1>2, <1>3 DEF Authorise, WriteThenClear

\* Every action keeps OAuth to the connections that were opened with a grant.
LEMMA UnderWayNext ==
  ASSUME CredentialInv, Next
  PROVE  UnderWay'
  <1> USE DEF Go, auth, store, conns, history, config, UnderWay
  <1>0. TypeOK /\ UnderWay BY DEF CredentialInv
  <1>1. pc \in [Conn -> {"off", "idle", "asking", "granted", "sent", "closed"}]
        /\ conf \in [Conn -> 0..MaxAuth] /\ file.doc.auth \in Nat
    BY <1>0, Bounds DEF TypeOK, RegistryTypeOK, Doc
  <1>2. (\A c \in Conn : pc[c] \in {"asking", "granted", "sent"} => conf[c] # 0)'
    <2>1. CASE \E c \in Conn : Attach(c) BY <1>0, <1>1, <2>1 DEF Attach
    <2>2. CASE \E c \in Conn : Present(c) \/ AskRefresh(c)
      BY <1>0, <1>1, <2>2 DEF Present, AskRefresh
    <2>3. CASE \E c \in Conn : \/ Answered(c) \/ Unauthorised(c) \/ Refreshes(c)
                              \/ InvalidGrant(c) \/ Save(c)
      BY <1>0, <1>1, <2>3 DEF Answered, Unauthorised, Refreshes, InvalidGrant, Save
    <2>4. CASE (\E c \in Conn : HangUp(c)) \/ Crash
      BY <1>0, <1>1, <2>4 DEF HangUp, Crash
    <2>5. CASE UNCHANGED conns BY <1>0, <2>5
    <2>6. QED
      BY <2>1, <2>2, <2>3, <2>4, <2>5
      DEF Next, Step, EditFile, LookUp, Expire, RequestLogin, PressButton, Submit, Logout,
          Consent, Authorise
  <1>3. CASE Authorise BY <1>0, <1>1, <1>2, <1>3, ScriptMoves
  <1>4. CASE Consent
    <2>1. file' = file /\ script' = "consented" /\ file.doc.auth + 1 \in Grant
      BY <1>4 DEF Consent
    <2>2. QED BY <1>2, <2>1
  <1>5. CASE ~ Authorise /\ ~ Consent
    <2>1. script' = script /\ (file'.doc.auth = file.doc.auth \/ script' = "written")
      BY <1>0, <1>5, FileStays
    <2>2. file'.doc.auth = file.doc.auth BY <1>0, <1>5, <2>1, FileStays
    <2>3. QED BY <1>0, <1>2, <2>1, <2>2
  <1>6. QED BY <1>3, <1>4, <1>5

\* What a save leaves in the row.
LEMMA SavedRow ==
  ASSUME TypeOK, NEW c \in Conn, Save(c)
  PROVE  /\ row' # None
         /\ row'.access.grant = using[c].grant /\ row'.refresh.grant = using[c].grant
         /\ server # "keeps" => row'.refresh.issue = issued[using[c].grant]
         /\ using'[c].grant = using[c].grant
         /\ \A d \in Conn \ {c} : using'[d] = using[d]
  <1>1. using[c] \in Token /\ issued[using[c].grant] \in 0..MaxIssue
    BY DEF TypeOK, Token
  <1>2. PICK e \in BOOLEAN :
          row' = [access |-> [grant |-> using[c].grant, issue |-> issued[using[c].grant]],
                  refresh |-> NewRefresh(c), timed |-> e]
    BY DEF Save, KeptRefresh
  <1>3. NewRefresh(c) \in Token /\ NewRefresh(c).grant = using[c].grant
        /\ (server # "keeps" => NewRefresh(c).issue = issued[using[c].grant])
    BY <1>1 DEF NewRefresh, Token
  <1>4. row' \in Row BY <1>1, <1>2, <1>3 DEF Row, Token
  <1>5. row' # None BY <1>4
  <1>6. using' = [using EXCEPT ![c] = [grant |-> using[c].grant, issue |-> issued[using[c].grant]]]
    BY DEF Save
  <1>7. QED BY <1>1, <1>2, <1>3, <1>5, <1>6 DEF TypeOK

\* Until the script writes, every action keeps to the one grant.
LEMMA OneGrantNext ==
  ASSUME CredentialInv, Next
  PROVE  OneGrant'
  <1> USE DEF Go, Open, auth, store, conns, history, config, registry
  <1>0. TypeOK /\ UnderWay /\ OneGrant /\ OwnGrant BY DEF CredentialInv
  <1>1. SUFFICES ASSUME script' = "off" PROVE OneGrant'
    BY DEF OneGrant
  <1>2. script = "off" /\ ~ Authorise /\ ~ Consent /\ file'.doc.auth = file.doc.auth
    BY <1>0, <1>1, FileStays, ScriptMoves DEF Consent
  <1>3. (served # None => served.auth = file.doc.auth)'
    <2>1. CASE Look BY <1>0, <1>2, <2>1, LookGrant
    <2>2. CASE served' = served BY <1>0, <1>2, <2>2 DEF OneGrant
    <2>3. CASE Crash BY <2>3 DEF Crash, ForgetConfig
    <2>4. QED
      BY <1>2, <2>1, <2>2, <2>3
      DEF Next, Step, EditFile, Edit, Write, Chmod, Remove, LookUp, LookFails, Attach, Present,
          AskRefresh, Answered, Unauthorised, Refreshes, InvalidGrant, Save, Expire, HangUp,
          RequestLogin, PressButton, Submit, Logout
  <1>4. (\A c \in Conn : Open(c) => conf[c] = file.doc.auth)'
    <2>1. pc \in [Conn -> {"off", "idle", "asking", "granted", "sent", "closed"}]
          /\ conf \in [Conn -> 0..MaxAuth]
      BY <1>0 DEF TypeOK
    <2>2. CASE \E c \in Conn : Attach(c)
      <3>1. PICK c \in Conn : Attach(c) BY <2>2
      <3>2. served'.auth = file.doc.auth BY <1>0, <1>2, <3>1, LookGrant DEF Attach
      <3>3. QED BY <1>0, <1>2, <2>1, <3>1, <3>2 DEF Attach, OneGrant
    <2>3. CASE \E c \in Conn : \/ Present(c) \/ AskRefresh(c) \/ Answered(c) \/ Unauthorised(c)
                              \/ Refreshes(c) \/ InvalidGrant(c) \/ Save(c)
      BY <1>0, <1>2, <2>1, <2>3
      DEF Present, AskRefresh, Answered, Unauthorised, Refreshes, InvalidGrant, Save, OneGrant
    <2>4. CASE (\E c \in Conn : HangUp(c)) \/ Crash
      BY <1>0, <1>2, <2>1, <2>4 DEF HangUp, Crash, OneGrant
    <2>5. CASE UNCHANGED conns BY <1>0, <1>2, <2>5 DEF OneGrant
    <2>6. QED
      BY <1>2, <2>2, <2>3, <2>4, <2>5
      DEF Next, Step, EditFile, LookUp, Expire, RequestLogin, PressButton, Submit, Logout
  <1>5. (row # None => row.refresh.grant = file.doc.auth /\ row.access.grant = file.doc.auth)'
    <2>1. CASE \E c \in Conn : Save(c)
      <3>1. PICK c \in Conn : Save(c) BY <2>1
      <3>2. using[c].grant = file.doc.auth BY <1>0, <1>2, <3>1 DEF Save, OwnGrant
      <3>3. QED BY <1>0, <1>2, <3>1, <3>2, SavedRow
    <2>2. CASE row' = row BY <1>0, <1>2, <2>2 DEF OneGrant
    <2>3. QED
      BY <1>2, <2>1, <2>2
      DEF Next, Step, EditFile, LookUp, Attach, Present, AskRefresh, Answered, Unauthorised,
          Refreshes, InvalidGrant, Expire, HangUp, Crash, RequestLogin, PressButton, Submit, Logout
  <1>6. QED BY <1>3, <1>4, <1>5 DEF OneGrant

\* Once the script is done, every action keeps to the new grant, if nobody was in its way.
LEMMA NewGrantNext ==
  ASSUME CredentialInv, Next
  PROVE  NewGrant'
  <1> USE DEF Go, Open, auth, store, conns, history, config, registry
  <1>0. TypeOK /\ UnderWay /\ NewGrant /\ OwnGrant BY DEF CredentialInv
  <1>a. pc \in [Conn -> {"off", "idle", "asking", "granted", "sent", "closed"}]
        /\ conf \in [Conn -> 0..MaxAuth] /\ sends \in [Conn -> BOOLEAN]
    BY <1>0 DEF TypeOK
  <1>1. SUFFICES ASSUME script' = "done", ~ raced' PROVE NewGrant'
    BY DEF NewGrant
  <1>2. CASE Authorise
    <2>1. /\ ClearRows /\ UNCHANGED <<config, auth, timed, conns, login, torn, reused>>
      BY <1>0, <1>1, <1>2, ScriptMoves
    <2>2. row' = None /\ ~ cookie' /\ login = "none" /\ \A c \in Conn : ~ Open(c)
      BY <1>1, <2>1 DEF ClearRows
    <2>3. QED BY <2>1, <2>2 DEF NewGrant
  <1>3. CASE ~ Authorise
    <2>1. script = "done" /\ ~ raced /\ file'.doc.auth = file.doc.auth /\ file.doc.auth # 0
      <3>1. script' = script \/ Consent BY <1>0, <1>3, FileStays
      <3>2. script = "done" BY <1>1, <3>1 DEF Consent
      <3>3. ~ raced
        BY <1>1, <1>3
        DEF Next, Step, EditFile, LookUp, Attach, Present, AskRefresh, Answered, Unauthorised,
            Refreshes, InvalidGrant, Save, Expire, HangUp, Crash, RequestLogin, PressButton,
            Submit, Logout, UseServed, Consent
      <3>4. QED BY <1>0, <3>2, <3>3, FileStays DEF UnderWay
    <2>2. ~ cookie /\ login = "none" BY <1>0, <2>1 DEF NewGrant
    <2>3. ~ RequestLogin /\ ~ PressButton /\ ~ Submit
      BY <1>1, <2>1, <2>2 DEF RequestLogin, PressButton, Submit, UseServed, LoginFits, Look
    <2>4. CASE \E c \in Conn : Attach(c)
      <3>1. PICK c \in Conn : Attach(c) BY <2>4
      <3>2. served'.auth = file.doc.auth BY <1>1, <3>1 DEF Attach, UseServed, Look
      <3>3. QED BY <1>0, <1>a, <2>1, <2>2, <3>1, <3>2 DEF Attach, NewGrant
    <2>5. CASE \E c \in Conn : Save(c)
      <3>1. PICK c \in Conn : Save(c) BY <2>5
      <3>2. row'.access.grant = file.doc.auth /\ row'.refresh.grant = file.doc.auth
        BY <1>0, <2>1, <3>1, SavedRow DEF Save, OwnGrant
      <3>3. QED BY <1>0, <1>a, <2>1, <2>2, <3>1, <3>2 DEF Save, NewGrant
    <2>6. CASE \E c \in Conn : \/ Present(c) \/ AskRefresh(c) \/ Answered(c) \/ Unauthorised(c)
                              \/ Refreshes(c) \/ InvalidGrant(c) \/ HangUp(c)
      BY <1>0, <1>a, <2>1, <2>6
      DEF Present, AskRefresh, Answered, Unauthorised, Refreshes, InvalidGrant, HangUp, NewGrant
    <2>7. CASE EditFile \/ LookUp \/ Consent \/ (\E t \in alive : Expire(t)) \/ Logout
      BY <1>0, <2>1, <2>7 DEF EditFile, LookUp, Consent, Expire, Logout, NewGrant
    <2>8. CASE Crash BY <1>0, <1>a, <2>1, <2>8 DEF Crash, NewGrant
    <2>9. QED
      BY <1>3, <2>3, <2>4, <2>5, <2>6, <2>7, <2>8 DEF Next, Step
  <1>4. QED BY <1>2, <1>3

\* What a connection asks or presents with, while one grant is in use.
LEMMA TokenGrant ==
  ASSUME CredentialInv, script = "off" \/ (script = "done" /\ ~ raced),
         NEW c \in Conn, Open(c)
  PROVE  /\ Access(c).grant = file.doc.auth /\ Refresh(c).grant = file.doc.auth
         /\ Refresh(c) = Held
  <1>1. conf[c] = file.doc.auth BY DEF CredentialInv, OneGrant, NewGrant
  <1>2. row # None => row.refresh.grant = file.doc.auth /\ row.access.grant = file.doc.auth
    BY DEF CredentialInv, OneGrant, NewGrant
  <1>3. QED BY <1>1, <1>2 DEF Access, Refresh, Held, First

\* While one grant is in use, the next state was reached with it in use.
LEMMA InUseBefore ==
  ASSUME CredentialInv, Next, ~ Authorise,
         script' = "off" \/ (script' = "done" /\ ~ raced')
  PROVE  /\ script' = script /\ (script = "off" \/ ~ raced)
         /\ file'.doc.auth = file.doc.auth /\ ~ Consent
  <1> USE DEF auth, store, conns, history, config, registry
  <1>0. TypeOK BY DEF CredentialInv
  <1>1. ~ Consent BY DEF Consent
  <1>2. script' = script BY <1>0, <1>1, FileStays
  <1>3. raced => raced'
    BY DEF Next, Step, EditFile, LookUp, Attach, Present, AskRefresh, Answered, Unauthorised,
           Refreshes, InvalidGrant, Save, Expire, HangUp, Crash, RequestLogin, PressButton,
           Submit, Logout, UseServed, Consent
  <1>4. QED BY <1>0, <1>1, <1>2, <1>3, FileStays

\* Every action keeps a connection to the grant it was opened with.
LEMMA OwnGrantNext ==
  ASSUME CredentialInv, Next
  PROVE  OwnGrant'
  <1> USE DEF Go, auth, store, conns, history, config, registry
  <1>0. TypeOK /\ OwnGrant BY DEF CredentialInv
  <1>a. pc \in [Conn -> {"off", "idle", "asking", "granted", "sent", "closed"}]
        /\ using \in [Conn -> Token]
    BY <1>0 DEF TypeOK
  <1>1. SUFFICES ASSUME script' = "off" \/ (script' = "done" /\ ~ raced') PROVE OwnGrant'
    BY DEF OwnGrant
  <1>2. CASE Authorise
    <2>1. /\ ClearRows /\ UNCHANGED <<config, auth, timed, conns, login, torn, reused>>
          /\ script' = "done"
      BY <1>0, <1>1, <1>2, ScriptMoves
    <2>2. \A c \in Conn : ~ Open(c)
      BY <1>1, <2>1 DEF ClearRows
    <2>3. QED BY <2>1, <2>2 DEF OwnGrant, Open
  <1>3. CASE ~ Authorise
    <2>1. /\ script' = script /\ (script = "off" \/ (script = "done" /\ ~ raced))
          /\ file'.doc.auth = file.doc.auth /\ ~ Consent
      BY <1>1, <1>3, InUseBefore
    <2>2. CASE \E c \in Conn : Present(c) \/ AskRefresh(c) \/ Unauthorised(c)
      <3>1. PICK c \in Conn : Present(c) \/ AskRefresh(c) \/ Unauthorised(c) BY <2>2
      <3>2. Open(c) BY <3>1 DEF Present, AskRefresh, Unauthorised, Open
      <3>3. Access(c).grant = file.doc.auth /\ Refresh(c).grant = file.doc.auth
        BY <2>1, <3>2, TokenGrant
      <3>4. using'[c].grant = file.doc.auth
            /\ \A d \in Conn \ {c} : using'[d] = using[d] /\ pc'[d] = pc[d]
        BY <1>a, <3>1, <3>3 DEF Present, AskRefresh, Unauthorised
      <3>5. QED BY <1>0, <2>1, <3>4 DEF OwnGrant
    <2>3. CASE \E c \in Conn : Save(c)
      <3>1. PICK c \in Conn : Save(c) BY <2>3
      <3>2. using'[c].grant = using[c].grant
            /\ \A d \in Conn \ {c} : using'[d] = using[d] /\ pc'[d] = pc[d]
        BY <1>0, <1>a, <3>1, SavedRow DEF Save
      <3>3. QED BY <1>0, <2>1, <3>1, <3>2 DEF Save, OwnGrant
    <2>4. CASE \E c \in Conn : \/ Attach(c) \/ Answered(c) \/ Refreshes(c) \/ InvalidGrant(c)
                              \/ HangUp(c)
      BY <1>0, <1>a, <2>1, <2>4
      DEF Attach, Answered, Refreshes, InvalidGrant, HangUp, OwnGrant
    <2>5. CASE Crash BY <1>0, <1>a, <2>1, <2>5 DEF Crash, OwnGrant
    <2>6. CASE UNCHANGED conns BY <1>0, <2>1, <2>6 DEF OwnGrant
    <2>7. QED
      BY <1>3, <2>1, <2>2, <2>3, <2>4, <2>5, <2>6
      DEF Next, Step, EditFile, LookUp, Expire, RequestLogin, PressButton, Submit, Logout
  <1>4. QED BY <1>2, <1>3

\* Only a refresh token that comes back ends a grant in use.
LEMMA GrantLivesNext ==
  ASSUME CredentialInv, Next
  PROVE  GrantLives'
  <1> USE DEF auth, store, conns, history, config, registry
  <1>0. TypeOK /\ GrantLives /\ UnderWay /\ file.doc.auth \in Nat
    BY Bounds DEF CredentialInv, TypeOK, RegistryTypeOK, Doc
  <1>1. CASE Consent
    <2> DEFINE g == file.doc.auth + 1
    <2>1. /\ script = "off" /\ script' = "consented" /\ file' = file /\ reused' = reused
          /\ dead' \in {dead, dead \cup ({g - 1} \ {0})}
      BY <1>1 DEF Consent
    <2>2. g - 1 # g BY <1>0
    <2>3. QED BY <1>0, <2>1, <2>2 DEF GrantLives
  <1>2. CASE Authorise BY <1>0, <1>2, ScriptMoves DEF GrantLives
  <1>3. CASE ~ Consent /\ ~ Authorise
    <2>1. /\ script' = script
          /\ file'.doc.auth = file.doc.auth \/ (script = "consented" /\ script' = "written")
      BY <1>0, <1>3, FileStays
    <2>2. reused' \/ (dead' = dead /\ reused' = reused)
      <3>1. CASE \E c \in Conn : InvalidGrant(c)
        <4>1. PICK c \in Conn : InvalidGrant(c) BY <3>1
        <4> DEFINE reuse == server = "detects" /\ ~ Current(using[c])
        <4>2. dead' = (IF reuse THEN dead \cup {using[c].grant} ELSE dead)
              /\ reused' = (reused \/ reuse)
          BY <4>1 DEF InvalidGrant
        <4>3. reused \in BOOLEAN BY <1>0 DEF TypeOK
        <4> HIDE DEF reuse
        <4>4. CASE reuse BY <4>2, <4>4
        <4>5. CASE ~ reuse BY <4>2, <4>3, <4>5
        <4>6. QED BY <4>4, <4>5
      <3>2. CASE ~ \E c \in Conn : InvalidGrant(c)
        BY <1>3, <3>2
        DEF Next, Step, EditFile, LookUp, Attach, Present, AskRefresh, Answered, Unauthorised,
            Refreshes, Save, Expire, HangUp, Crash, RequestLogin, PressButton, Submit, Logout
      <3>3. QED BY <3>1, <3>2
    <2>3. QED BY <1>0, <2>1, <2>2 DEF GrantLives
  <1>4. QED BY <1>1, <1>2, <1>3

\* The issue the daemon holds is a number.
LEMMA HeldIsToken == ASSUME TypeOK, file.doc.auth # 0 PROVE Held \in Token
  <1>1. First(file.doc.auth) \in Token
    BY Bounds DEF TypeOK, RegistryTypeOK, Doc, First, Token, Grant
  <1>2. QED BY <1>1 DEF TypeOK, Row, Held

\* Every action leaves the latest token where the next refresh finds it.
LEMMA LatestNext ==
  ASSUME CredentialInv, Next
  PROVE  LatestIsHeld'
  <1> USE DEF Go, auth, store, conns, history, config, registry
  <1>0. TypeOK /\ OwnGrant /\ LatestIsHeld BY DEF CredentialInv
  <1>a. pc \in [Conn -> {"off", "idle", "asking", "granted", "sent", "closed"}]
        /\ using \in [Conn -> Token] /\ torn \in BOOLEAN
    BY <1>0 DEF TypeOK
  <1>1. SUFFICES ASSUME Calm', server' # "keeps" PROVE LatestIsHeld'
    BY DEF LatestIsHeld
  <1> DEFINE g == file.doc.auth
  <1>2. CASE Authorise
    <2>1. /\ ClearRows /\ UNCHANGED <<config, auth, timed, conns, login, torn, reused>>
      BY <1>0, <1>1, <1>2, ScriptMoves DEF Calm
    <2>2. row' = None /\ issued[g] = 0 /\ \A c \in Conn : ~ Open(c)
      <3>1. ~ raced' /\ g # 0 BY <1>1, <2>1 DEF Calm
      <3>2. g \in Grant /\ issued[g] \in Nat
        BY <1>0, <3>1, Bounds DEF TypeOK, RegistryTypeOK, Doc, Grant
      <3>3. row' = None /\ ~ (issued[g] > 0) /\ \A c \in Conn : ~ Open(c)
        BY <2>1, <3>1 DEF ClearRows
      <3>4. issued[g] = 0 BY <3>2, <3>3
      <3>5. QED BY <3>3, <3>4
    <2>3. Held' = First(g) /\ file' = file /\ issued' = issued /\ pc' = pc
      BY <2>1, <2>2 DEF Held
    <2>4. Held'.issue = 0 BY <2>3 DEF First
    <2>5. QED BY <2>2, <2>3, <2>4 DEF LatestIsHeld, Open
  <1>3. CASE ~ Authorise
    <2>0. /\ script' = script /\ (script = "off" \/ (script = "done" /\ ~ raced))
          /\ file'.doc.auth = g /\ ~ Consent
      BY <1>1, <1>3, InUseBefore DEF Calm
    <2>1. torn => torn'
      BY <1>3, <2>0
      DEF Next, Step, EditFile, LookUp, Attach, Present, AskRefresh, Answered, Unauthorised,
          Refreshes, InvalidGrant, Save, Expire, HangUp, Crash, RequestLogin, PressButton,
          Submit, Logout, UseServed
    <2>2. raced => raced'
      BY <1>3, <2>0
      DEF Next, Step, EditFile, LookUp, Attach, Present, AskRefresh, Answered, Unauthorised,
          Refreshes, InvalidGrant, Save, Expire, HangUp, Crash, RequestLogin, PressButton,
          Submit, Logout, UseServed
    <2>3. server' = server
      BY <1>3, <2>0
      DEF Next, Step, EditFile, LookUp, Attach, Present, AskRefresh, Answered, Unauthorised,
          Refreshes, InvalidGrant, Save, Expire, HangUp, Crash, RequestLogin, PressButton,
          Submit, Logout
    <2>4. Calm /\ server # "keeps" BY <1>1, <2>0, <2>1, <2>2, <2>3 DEF Calm
    <2>5. /\ g \in Grant /\ issued[g] \in Nat /\ Held.issue \in Nat
          /\ \A c \in Conn : using[c].issue \in Nat
      <3>1. g \in Grant
        BY <1>0, <2>4, Bounds DEF TypeOK, RegistryTypeOK, Doc, Grant, Calm
      <3>2. Held \in Token BY <1>0, <2>4, HeldIsToken DEF Calm
      <3>3. QED BY <1>0, <3>1, <3>2, Bounds DEF TypeOK, Token
    <2>6. \A c \in Conn : pc[c] \in {"asking", "granted", "sent"} => using[c].grant = g
      BY <1>0, <2>0 DEF OwnGrant
    <2>7. row' = row => Held' = Held BY <2>0 DEF Held, First
    <2>8. /\ Held.issue <= issued[g]
          /\ \A c \in Conn : pc[c] = "asking" => using[c].issue <= Held.issue
          /\ \A c \in Conn : pc[c] = "granted" => Held.issue < issued[g]
          /\ \A c, d \in Conn : pc[c] = "granted" /\ pc[d] = "granted" => c = d
          /\ (\A c \in Conn : pc[c] # "granted") => Held.issue = issued[g]
      BY <1>0, <2>4 DEF LatestIsHeld
    <2>9. CASE \E c \in Conn : Refreshes(c)
      <3>1. PICK c \in Conn : Refreshes(c) BY <2>9
      <3>2. pc[c] = "asking" /\ using[c].grant = g /\ using[c].issue = issued[g]
        BY <2>4, <2>6, <3>1 DEF Refreshes, Honoured, Current
      <3>3. Held.issue = issued[g] /\ \A d \in Conn : pc[d] # "granted"
        BY <2>5, <2>8, <3>2
      <3>4. issued'[g] = issued[g] + 1 /\ row' = row /\ using' = using
        BY <1>0, <2>5, <3>1, <3>2 DEF Refreshes, TypeOK
      <3>5. pc' = [pc EXCEPT ![c] = "granted"] BY <3>1 DEF Refreshes
      <3> HIDE DEF g
      <3>6. QED BY <1>a, <2>0, <2>5, <2>7, <2>8, <3>3, <3>4, <3>5 DEF LatestIsHeld, g
    <2>10. CASE \E c \in Conn : Save(c)
      <3>1. PICK c \in Conn : Save(c) BY <2>10
      <3>2. pc[c] = "granted" /\ using[c].grant = g BY <2>6, <3>1 DEF Save
      <3>3. Held' = row'.refresh /\ Held'.issue = issued[g] /\ issued' = issued
            /\ \A d \in Conn \ {c} : using'[d] = using[d]
        BY ZenonT(40), <1>0, <2>4, <3>1, <3>2, SavedRow DEF Held, Save
      <3>4. pc' = [pc EXCEPT ![c] = "sent"] BY <3>1 DEF Save
      <3>5. QED BY <1>a, <2>0, <2>5, <2>8, <3>2, <3>3, <3>4 DEF LatestIsHeld
    <2>11. CASE \E c \in Conn : AskRefresh(c) \/ Unauthorised(c)
      <3>1. PICK c \in Conn : AskRefresh(c) \/ Unauthorised(c) BY <2>11
      <3>2. Refresh(c) = Held
        BY <2>0, <3>1, TokenGrant DEF AskRefresh, Unauthorised, Open
      <3>3. pc' = [pc EXCEPT ![c] = "asking"] /\ using' = [using EXCEPT ![c] = Held]
            /\ row' = row /\ issued' = issued /\ pc[c] \in {"idle", "sent"}
        BY <3>1, <3>2 DEF AskRefresh, Unauthorised
      <3>4. QED BY <1>a, <2>0, <2>5, <2>7, <2>8, <3>3 DEF LatestIsHeld
    <2>12. CASE \E c \in Conn : \/ Attach(c) \/ Present(c) \/ Answered(c) \/ InvalidGrant(c)
                               \/ HangUp(c)
      <3>1. PICK c \in Conn : \/ Attach(c) \/ Present(c) \/ Answered(c) \/ InvalidGrant(c)
                            \/ HangUp(c)
        BY <2>12
      <3>2. pc[c] # "granted" /\ row' = row /\ issued' = issued
        BY <1>1, <3>1 DEF Attach, Present, Answered, InvalidGrant, HangUp, Calm
      <3>3. /\ pc'[c] \in {"idle", "sent", "closed"}
            /\ \A d \in Conn \ {c} : pc'[d] = pc[d] /\ using'[d] = using[d]
        BY <1>a, <3>1 DEF Attach, Present, Answered, InvalidGrant, HangUp
      <3>4. QED BY <2>0, <2>5, <2>7, <2>8, <3>2, <3>3 DEF LatestIsHeld
    <2>13. CASE Crash
      <3>1. \A c \in Conn : pc[c] # "granted" /\ pc'[c] \in {"off", "closed"}
        BY <1>1, <1>a, <2>13 DEF Crash, Calm, Open
      <3>2. row' = row /\ issued' = issued BY <2>13 DEF Crash
      <3>3. QED BY <2>0, <2>5, <2>7, <2>8, <3>1, <3>2 DEF LatestIsHeld
    <2>14. CASE UNCHANGED <<conns, row, issued>>
      BY <2>0, <2>7, <2>8, <2>14 DEF LatestIsHeld
    <2>15. QED
      BY <1>3, <2>0, <2>9, <2>10, <2>11, <2>12, <2>13, <2>14
      DEF Next, Step, EditFile, LookUp, Expire, RequestLogin, PressButton, Submit, Logout
  <1>4. QED BY <1>2, <1>3

-----------------------------------------------------------------------------
(* The theorems.                                                           *)

\* Every step keeps the invariant.
LEMMA CredentialStep == CredentialInv /\ [Next]_vars => CredentialInv'
  <1>1. ASSUME CredentialInv, Next PROVE CredentialInv'
    BY <1>1, TypeNext, CopyNext, UnderWayNext, OneGrantNext, NewGrantNext, OwnGrantNext,
       GrantLivesNext, LatestNext DEF CredentialInv
  <1>2. ASSUME CredentialInv, UNCHANGED vars PROVE CredentialInv'
    BY <1>2
    DEF vars, config, registry, auth, store, conns, history, CredentialInv, TypeOK,
        RegistryTypeOK, CopyIsGood, UnderWay, OneGrant, NewGrant, OwnGrant, GrantLives,
        LatestIsHeld, Calm, Held, Open
  <1>3. QED BY <1>1, <1>2

\* The inductive invariant holds in every reachable state.
LEMMA Inductive == Spec => []CredentialInv
  BY CredentialInit, CredentialStep, PTL DEF Spec

\* Every reachable state of the registry, the rows and the connections is well typed.
THEOREM TypeCorrect == Spec => []TypeOK
  <1>1. CredentialInv => TypeOK BY DEF CredentialInv
  <1>2. QED BY Inductive, <1>1, PTL

\* The registry serves what the file says: nothing of a file others can read, and exactly
\* a file that is private and parses (mcpconfig.Registry._refresh).
THEOREM FileObeyed == Spec => []FileIsObeyed
  <1>1. CredentialInv => FileIsObeyed
    BY DEF CredentialInv, CopyIsGood, FileIsObeyed, Refreshed, Changed, Load
  <1>2. QED BY Inductive, <1>1, PTL

\* Whatever was in the file, a server that is served has a url, possibly an empty one, or a
\* command, and somebody may use it (mcpconfig.parse_server).
THEOREM UsableServed == Spec => []ServedIsUsable
  <1>1. CredentialInv => ServedIsUsable
    BY DEF CredentialInv, CopyIsGood, ServedIsUsable, Parses, TransportParses, ProxyParses,
           CredentialParses, ModeParses
  <1>2. QED BY Inductive, <1>1, PTL

\* The grant survives its refreshes, with any number of connections that refresh at once
\* (mcpproxy.OAuth).
THEOREM GrantKept == Spec => []GrantIsKept
  <1>1. ASSUME CredentialInv PROVE GrantIsKept
    <2>1. SUFFICES ASSUME Calm, ~ reused, \A c \in Conn : pc[c] # "granted"
                   PROVE  Honoured(Held)
      BY DEF GrantIsKept, Calm
    <2>2. Held.grant = file.doc.auth
      BY <1>1, <2>1 DEF CredentialInv, OneGrant, NewGrant, Calm, Held, First
    <2>3. file.doc.auth \notin dead BY <1>1, <2>1 DEF CredentialInv, GrantLives, Calm
    <2>4. server = "keeps" \/ Held.issue = issued[file.doc.auth]
      BY <1>1, <2>1 DEF CredentialInv, LatestIsHeld
    <2>5. QED BY <2>2, <2>3, <2>4 DEF Honoured, Current
  <1>2. QED BY Inductive, <1>1, PTL

\* A renewal takes: after the script no older row and no pasted header stands before the
\* new grant (authorise-mcp-oauth.py, clear_stale_rows).
THEOREM RenewalTaken == Spec => []RenewalTakes
  <1>1. CredentialInv => RenewalTakes
    BY DEF CredentialInv, NewGrant, RenewalTakes
  <1>2. QED BY Inductive, <1>1, PTL
=============================================================================
