------------------------ MODULE SystemSettingsProofs ------------------------
(***************************************************************************)
(* The copies of the settings and of the allowed addresses, for any number *)
(* of requests, forms and stops of the server: what a save leaves behind,  *)
(* and what requests that come one after the other find.                   *)
(***************************************************************************)
EXTENDS SystemSettings, TLAPS

\* A step of a request that has begun.
Works(r) ==
  \/ ClearMap(r) \/ SelectRows(r) \/ PutRow(r) \/ FillsFirst(r) \/ Throws(r)
  \/ GetSetting(r) \/ CompareSettings(r) \/ CompareHosts(r) \/ DeleteAuthIp(r)
  \/ InsertAuthIp(r) \/ EmptyAdmitted(r) \/ SelectLoginIpList(r) \/ AssignAdmitted(r)
  \/ AuditSettings(r) \/ UpdateSftpId(r) \/ UpdateSftpPwd(r) \/ WriteSftpInfo(r)
  \/ WriteSftpFails(r) \/ SaveReturns(r) \/ StatementFails(r)

Act(r) == UpdateManagerSettingInfo(r) \/ Login(r) \/ Works(r)

LEMMA TroubleStays == ASSUME [SettingsNext]_settingsVars PROVE trouble' = trouble
BY DEF SettingsNext, settingsVars, UpdateManagerSettingInfo, Login, Begin, ClearMap,
       SelectRows, PutRow, FillsFirst, Throws, GetSetting, CompareSettings, CompareHosts,
       DeleteAuthIp, InsertAuthIp, EmptyAdmitted, SelectLoginIpList, AssignAdmitted,
       AuditSettings, UpdateSftpId, UpdateSftpPwd, WriteSftpInfo, WriteSftpFails,
       SaveReturns, StatementFails, SettingsRestart

-----------------------------------------------------------------------------
(* Types                                                                   *)

Limits == {f.limit : f \in Forms}
Ids    == {f.id : f \in Forms}
Texts  == {f.text : f \in Forms}
Hosts  == UNION {f.hosts : f \in Forms}
RowSet == [limit : Limits, id : Ids, pwd : [text : Texts, with : Ids]]

Lefts  == {<<>>, <<"limit", "id", "pwd">>, <<"id", "pwd">>, <<"pwd">>}
Nexts  == {"idle", "get", "hosts", "audit", "sftp id", "sftp pwd", "write", "saved"}

Work == [at : Points, form : Forms, read : RowSet, left : Lefts, hosts : SUBSET Hosts,
         next : Nexts, changed : BOOLEAN, alone : BOOLEAN]

\* A copy of rows that may lack some.
Copied(m) ==
  /\ DOMAIN m \subseteq {"limit", "id", "pwd"} /\ m = [k \in DOMAIN m |-> m[k]]
  /\ "limit" \in DOMAIN m => m.limit \in Limits
  /\ "id" \in DOMAIN m => m.id \in Ids
  /\ "pwd" \in DOMAIN m => m.pwd \in [text : Texts, with : Ids]

DataType ==
  /\ trouble \in SettingsFaults
  /\ rows \in RowSet /\ Copied(sysMap)
  /\ hosts \subseteq Hosts /\ admitted \subseteq Hosts
  /\ file \in [id : Ids, text : Texts] \cup {NoServer}
  /\ missed \in BOOLEAN /\ failed \in BOOLEAN /\ served \in 0 .. MaxServed

WorkType ==
  /\ req \in [Requests -> Work]
  /\ \A r \in Requests : req[r].at = "put" => req[r].left # <<>>

LEMMA FormType ==
    ASSUME NEW f \in Forms
    PROVE  /\ f.limit \in Limits /\ f.id \in Ids /\ f.text \in Texts /\ f.hosts \subseteq Hosts
           /\ RowsOf(f) \in RowSet /\ FileOf(f) \in [id : Ids, text : Texts]
BY DEF Limits, Ids, Texts, Hosts, RowSet, RowsOf, FileOf, Encrypted

LEMMA IdleType == Idle \in Work /\ Idle.at = "idle"
<1>1. StartForm \in Forms /\ RowsOf(StartForm) \in RowSet
  BY FormAssumption, FormType
<1> QED
  BY <1>1 DEF Idle, Work, Points, Lefts, Nexts

LEMMA RowsCopied == ASSUME NEW m \in RowSet PROVE Copied(m)
BY DEF RowSet, Copied

LEMMA BeginType ==
    ASSUME WorkType, DataType, NEW r \in Requests, NEW f \in Forms,
           NEW a \in {"get", "compare"}, Begin(r, a, f)
    PROVE  WorkType' /\ DataType'
<1>1. [Idle EXCEPT !.at = a, !.form = f, !.alone = Quiet] \in Work
      /\ [Idle EXCEPT !.at = a, !.form = f, !.alone = Quiet].at = a
  BY IdleType DEF Work, Points, Quiet
<1>2. \A q \in Requests : [req[q] EXCEPT !.alone = FALSE] \in Work
        /\ [req[q] EXCEPT !.alone = FALSE].at = req[q].at
        /\ [req[q] EXCEPT !.alone = FALSE].left = req[q].left
  BY DEF WorkType, Work
<1>3. WorkType'
  BY <1>1, <1>2 DEF Begin, WorkType
<1>4. DataType'
  BY ServedAssumption DEF Begin, DataType
<1> QED
  BY <1>3, <1>4

\* What a request does next is a change of its own record.
LEMMA WorkUpdate ==
    ASSUME WorkType, NEW r \in Requests, NEW w \in Work,
           w.at = "put" => w.left # <<>>, req' = [req EXCEPT ![r] = w]
    PROVE  WorkType'
BY DEF WorkType

LEMMA GoesType ==
    ASSUME WorkType, NEW r \in Requests, NEW a \in Points \ {"put"}, Goes(r, a)
    PROVE  WorkType'
<1> DEFINE w == [req[r] EXCEPT !.at = a]
<1>1. w \in Work /\ w.at # "put"
  BY DEF WorkType, Work, Points
<1>2. req' = [req EXCEPT ![r] = w]
  BY DEF Goes, WorkType
<1> HIDE DEF w
<1> QED
  BY <1>1, <1>2, WorkUpdate

LEMMA EndType == ASSUME WorkType, NEW r \in Requests, Ends(r) PROVE WorkType'
<1>1. Idle \in Work /\ Idle.at # "put"
  BY IdleType
<1> QED
  BY <1>1, WorkUpdate DEF Ends

LEMMA FillsType ==
    ASSUME WorkType, NEW r \in Requests, NEW n \in Nexts, NEW c \in BOOLEAN,
           req' = [req EXCEPT ![r] = [req[r] EXCEPT !.at = "clear", !.next = n, !.changed = c]]
    PROVE  WorkType'
<1> DEFINE w == [req[r] EXCEPT !.at = "clear", !.next = n, !.changed = c]
<1>1. w \in Work /\ w.at # "put"
  BY DEF WorkType, Work, Points
<1> HIDE DEF w
<1> QED
  BY <1>1, WorkUpdate DEF w

\* What is left to be put after the first of some.
LEMMA LongerThanOne == ASSUME NEW l, Len(l) > 1 PROVE l # <<"pwd">>
<1>1. ~ (Len(<<"pwd">>) > 1)
  OBVIOUS
<1> QED
  BY <1>1, Zenon

LEMMA TailsLeft ==
    ASSUME NEW l \in Lefts \ {<<>>}, Len(l) > 1
    PROVE  Tail(l) \in Lefts \ {<<>>}
<1>1. Tail(<<"id", "pwd">>) = <<"pwd">> /\ <<"pwd">> # <<>>
  OBVIOUS
<1>2. Tail(<<"limit", "id", "pwd">>) = <<"id", "pwd">> /\ <<"id", "pwd">> # <<>>
  OBVIOUS
<1>3. l \in {<<"limit", "id", "pwd">>, <<"id", "pwd">>, <<"pwd">>}
  BY DEF Lefts
<1>4. l # <<"pwd">>
  BY LongerThanOne
<1> QED
  BY <1>1, <1>2, <1>3, <1>4 DEF Lefts

\* Filling the map.
LEMMA PutType ==
    ASSUME WorkType, DataType, NEW r \in Requests, PutRow(r)
    PROVE  WorkType' /\ DataType'
<1> DEFINE k == Head(req[r].left)
<1>0. req[r] \in Work /\ req[r].left \in Lefts \ {<<>>}
  BY DEF PutRow, WorkType, Work
<1>1. k \in {"limit", "id", "pwd"} /\ req[r].read \in RowSet
  BY <1>0 DEF Lefts, Work
<1>2. Copied(sysMap')
  BY <1>1 DEF PutRow, DataType, Copied, RowSet
<1>3. CASE Len(req[r].left) > 1
  <2> DEFINE w == [req[r] EXCEPT !.left = Tail(@)]
  <2>1. Tail(req[r].left) \in Lefts \ {<<>>}
    BY <1>0, <1>3, TailsLeft
  <2>2. w \in Work /\ w.left # <<>>
    BY <1>0, <2>1 DEF Work
  <2>3. req' = [req EXCEPT ![r] = w]
    BY <1>3 DEF PutRow
  <2> HIDE DEF w
  <2>4. WorkType'
    BY <2>2, <2>3, WorkUpdate
  <2> QED
    BY <1>2, <2>4 DEF PutRow, DataType
<1>4. CASE ~ (Len(req[r].left) > 1)
  <2> DEFINE w == [req[r] EXCEPT !.at = req[r].next, !.left = <<>>, !.read = Idle.read]
  <2>1. Idle.read \in RowSet
    BY IdleType DEF Work
  <2>2. w \in Work /\ w.at # "put"
    BY <1>0, <2>1 DEF Work, Points, Nexts, Lefts
  <2>3. req' = [req EXCEPT ![r] = w]
    BY <1>4 DEF PutRow
  <2> HIDE DEF w
  <2>4. WorkType'
    BY <2>2, <2>3, WorkUpdate
  <2> QED
    BY <1>2, <2>4 DEF PutRow, DataType
<1> QED
  BY <1>3, <1>4

LEMMA FillType ==
    ASSUME WorkType, DataType, NEW r \in Requests,
           ClearMap(r) \/ SelectRows(r) \/ FillsFirst(r)
    PROVE  WorkType' /\ DataType'
<1>0. req[r] \in Work /\ rows \in RowSet
  BY DEF WorkType, DataType
<1>1. CASE ClearMap(r)
  <2>1. Copied(Empty)
    BY DEF Copied, Empty
  <2>2. WorkType'
    BY <1>1, GoesType DEF ClearMap, Points
  <2> QED
    BY <1>1, <2>1, <2>2 DEF ClearMap, DataType
<1>2. CASE SelectRows(r)
  <2> DEFINE w == [req[r] EXCEPT !.at = "put", !.read = rows, !.left = ConfKeys]
  <2>1. w \in Work /\ w.left # <<>>
    BY <1>0 DEF Work, Points, Lefts, ConfKeys
  <2>2. req' = [req EXCEPT ![r] = w]
    BY <1>2 DEF SelectRows, WorkType
  <2> HIDE DEF w
  <2>3. WorkType'
    BY <2>1, <2>2, WorkUpdate
  <2> QED
    BY <1>2, <2>3 DEF SelectRows, DataType
<1>3. CASE FillsFirst(r)
  <2>1. req[r].at \in Nexts /\ req[r].changed \in BOOLEAN
    BY <1>0, <1>3 DEF FillsFirst, Nexts, Work
  <2>2. req' = [req EXCEPT ![r] = [req[r] EXCEPT !.at = "clear", !.next = req[r].at,
                                                 !.changed = req[r].changed]]
    BY <1>0, <1>3 DEF FillsFirst, Fills, WorkType, Work
  <2>3. WorkType'
    BY <2>1, <2>2, FillsType
  <2> QED
    BY <1>3, <2>3 DEF FillsFirst, DataType
<1> QED
  BY <1>1, <1>2, <1>3

\* The addresses.
LEMMA HostsType ==
    ASSUME WorkType, DataType, NEW r \in Requests,
           \/ CompareHosts(r) \/ DeleteAuthIp(r) \/ InsertAuthIp(r) \/ EmptyAdmitted(r)
           \/ SelectLoginIpList(r) \/ AssignAdmitted(r)
    PROVE  WorkType' /\ DataType'
<1>0. req[r] \in Work /\ req[r].form \in Forms /\ req[r].hosts \subseteq Hosts
      /\ hosts \subseteq Hosts
  BY DEF WorkType, DataType, Work
<1>1. CASE CompareHosts(r) \/ EmptyAdmitted(r)
  <2>1. WorkType'
    BY <1>1, GoesType DEF CompareHosts, EmptyAdmitted, Points
  <2> QED
    BY <1>1, <2>1 DEF CompareHosts, EmptyAdmitted, DataType
<1>2. ASSUME NEW a \in Points \ {"put"}, NEW h \in SUBSET Hosts,
             req' = [req EXCEPT ![r] = [req[r] EXCEPT !.at = a, !.hosts = h]]
      PROVE  WorkType'
  <2> DEFINE w == [req[r] EXCEPT !.at = a, !.hosts = h]
  <2>1. w \in Work /\ w.at # "put"
    BY <1>0 DEF Work
  <2> HIDE DEF w
  <2> QED
    BY <1>2, <2>1, WorkUpdate DEF w
<1>3. CASE DeleteAuthIp(r)
  <2>1. req[r].form.hosts \subseteq Hosts
    BY <1>0, FormType
  <2>2. req' = [req EXCEPT ![r] = [req[r] EXCEPT !.at = "insert", !.hosts = req[r].form.hosts]]
    BY <1>3 DEF DeleteAuthIp, WorkType
  <2>3. WorkType'
    BY <1>2, <2>1, <2>2 DEF Points
  <2> QED
    BY <1>3, <2>3 DEF DeleteAuthIp, DataType
<1>4. CASE InsertAuthIp(r)
  <2>1. PICK h \in req[r].hosts :
          /\ hosts' = hosts \union {h}
          /\ req' = [req EXCEPT ![r].hosts = @ \ {h},
                                ![r].at = IF req[r].hosts = {h} THEN "empty" ELSE "insert"]
    BY <1>4 DEF InsertAuthIp
  <2> DEFINE a == IF req[r].hosts = {h} THEN "empty" ELSE "insert"
  <2>2. req' = [req EXCEPT ![r] = [req[r] EXCEPT !.at = a, !.hosts = req[r].hosts \ {h}]]
    BY <1>0, <2>1 DEF WorkType, Work
  <2>3. a \in Points \ {"put"}
    BY DEF Points
  <2>4. WorkType'
    BY <1>0, <1>2, <2>2, <2>3
  <2> QED
    BY <1>0, <1>4, <2>1, <2>4 DEF InsertAuthIp, DataType
<1>5. CASE SelectLoginIpList(r)
  <2>1. req' = [req EXCEPT ![r] = [req[r] EXCEPT !.at = "assign", !.hosts = hosts]]
    BY <1>5 DEF SelectLoginIpList, WorkType
  <2>2. WorkType'
    BY <1>0, <1>2, <2>1 DEF Points
  <2> QED
    BY <1>5, <2>2 DEF SelectLoginIpList, DataType
<1>6. CASE AssignAdmitted(r)
  <2>1. req' = [req EXCEPT ![r] = [req[r] EXCEPT !.at = "audit", !.hosts = {}]]
    BY <1>6 DEF AssignAdmitted, WorkType
  <2>2. WorkType'
    BY <1>2, <2>1 DEF Points
  <2> QED
    BY <1>0, <1>6, <2>2 DEF AssignAdmitted, DataType
<1> QED
  BY <1>1, <1>3, <1>4, <1>5, <1>6

\* The rest of a save, and a login.
LEMMA SaveType ==
    ASSUME WorkType, DataType, NEW r \in Requests,
           \/ Throws(r) \/ GetSetting(r) \/ CompareSettings(r) \/ AuditSettings(r)
           \/ UpdateSftpId(r) \/ UpdateSftpPwd(r) \/ WriteSftpInfo(r)
           \/ WriteSftpFails(r) \/ SaveReturns(r) \/ StatementFails(r)
    PROVE  WorkType' /\ DataType'
<1>0. req[r] \in Work /\ req[r].form \in Forms /\ rows \in RowSet
  BY DEF WorkType, DataType, Work
<1>1. CASE Throws(r) \/ SaveReturns(r) \/ StatementFails(r)
  BY <1>1, EndType DEF Throws, SaveReturns, StatementFails, DataType
<1>2. CASE GetSetting(r)
  BY <1>2, EndType DEF GetSetting, HasKeys, DataType
<1>3. CASE AuditSettings(r)
  <2>1. WorkType'
    BY <1>3, GoesType DEF AuditSettings, Points
  <2> QED
    BY <1>3, <2>1 DEF AuditSettings, DataType
<1>4. CASE CompareSettings(r)
  <2>1. req' = [req EXCEPT ![r] = [req[r] EXCEPT !.at = "clear", !.next = "hosts",
                                     !.changed = req[r].form.limit # sysMap.limit]]
    BY <1>0, <1>4 DEF CompareSettings, WorkType
  <2>2. WorkType'
    BY <2>1, FillsType DEF Nexts
  <2>3. rows' \in RowSet
    BY <1>0, <1>4, FormType DEF CompareSettings, RowSet
  <2> QED
    BY <1>4, <2>2, <2>3 DEF CompareSettings, DataType
<1>5. CASE UpdateSftpId(r)
  <2> DEFINE w == [req[r] EXCEPT !.at = "sftp pwd", !.changed = req[r].form.id # sysMap.id]
  <2>1. w \in Work /\ w.at # "put"
    BY <1>0 DEF Work, Points
  <2>2. req' = [req EXCEPT ![r] = w]
    BY <1>5 DEF UpdateSftpId, WorkType
  <2> HIDE DEF w
  <2>3. WorkType'
    BY <2>1, <2>2, WorkUpdate
  <2>4. rows' \in RowSet
    BY <1>0, <1>5, FormType DEF UpdateSftpId, RowSet
  <2> QED
    BY <1>5, <2>3, <2>4 DEF UpdateSftpId, DataType
<1>6. CASE UpdateSftpPwd(r)
  <2> DEFINE c == req[r].changed \/ WritesPwd(r)
             n == IF c THEN "write" ELSE "saved"
  <2>1. Encrypted(req[r].form.text, req[r].form.id) \in [text : Texts, with : Ids]
    BY <1>0, FormType DEF Encrypted
  <2>2. rows' \in RowSet
    BY <1>0, <1>6, <2>1 DEF UpdateSftpPwd, RowSet
  <2>3. c \in BOOLEAN /\ n \in Nexts
    BY <1>0 DEF WritesPwd, Nexts, Work
  <2>4. req' = [req EXCEPT ![r] = [req[r] EXCEPT !.at = "clear", !.next = n, !.changed = c]]
    BY <1>0, <1>6 DEF UpdateSftpPwd, WorkType, Work
  <2>5. WorkType'
    BY <2>3, <2>4, FillsType
  <2> QED
    BY <1>6, <2>2, <2>5 DEF UpdateSftpPwd, DataType
<1>7. CASE WriteSftpInfo(r)
  <2>1. WorkType'
    BY <1>7, GoesType DEF WriteSftpInfo, Points
  <2> QED
    BY <1>7, <2>1 DEF WriteSftpInfo, Decrypts, HasKeys, DataType, Copied
<1>8. CASE WriteSftpFails(r)
  <2>1. WorkType'
    BY <1>8, GoesType, EndType DEF WriteSftpFails, Points
  <2>2. file' \in [id : Ids, text : Texts] \cup {NoServer}
    BY <1>8 DEF WriteSftpFails, DataType
  <2> QED
    BY <1>8, <2>1, <2>2 DEF WriteSftpFails, DataType
<1> QED
  BY <1>1, <1>2, <1>3, <1>4, <1>5, <1>6, <1>7, <1>8

LEMMA RestartType ==
    ASSUME WorkType, DataType, SettingsRestart PROVE WorkType' /\ DataType'
<1>1. WorkType'
  BY IdleType DEF SettingsRestart, WorkType
<1>2. Copied(rows)
  BY RowsCopied DEF DataType
<1>3. DataType'
  BY <1>2, ServedAssumption DEF SettingsRestart, DataType, RowSet
<1> QED
  BY <1>1, <1>3

LEMMA TypeStep ==
    WorkType /\ DataType /\ [SettingsNext]_settingsVars => WorkType' /\ DataType'
<1> SUFFICES ASSUME WorkType, DataType, [SettingsNext]_settingsVars
             PROVE  WorkType' /\ DataType'
  OBVIOUS
<1>1. CASE UNCHANGED settingsVars
  BY <1>1 DEF settingsVars, WorkType, DataType
<1>2. ASSUME NEW r \in Requests, Act(r) PROVE WorkType' /\ DataType'
  <2>1. CASE UpdateManagerSettingInfo(r)
    BY <2>1, BeginType DEF UpdateManagerSettingInfo
  <2>2. CASE Login(r)
    BY <2>2, BeginType, FormAssumption DEF Login
  <2> QED
    BY <1>2, <2>1, <2>2, PutType, FillType, HostsType, SaveType DEF Act, Works
<1> QED
  BY <1>1, <1>2, RestartType DEF SettingsNext, Act, Works

LEMMA Typed == SettingsSpec => [](WorkType /\ DataType)
<1>1. SettingsInit => WorkType
  BY IdleType DEF SettingsInit, WorkType
<1>2. SettingsInit => DataType
  <2>1. /\ RowsOf(StartForm) \in RowSet /\ Copied(RowsOf(StartForm))
        /\ FileOf(StartForm) \in [id : Ids, text : Texts] /\ StartForm.hosts \subseteq Hosts
    BY FormAssumption, FormType, RowsCopied
  <2> SUFFICES ASSUME SettingsInit PROVE DataType
    OBVIOUS
  <2>2. rows = RowsOf(StartForm) /\ sysMap = rows
    BY DEF SettingsInit
  <2>3. rows \in RowSet /\ Copied(sysMap)
    BY <2>1, <2>2
  <2>4. file \in [id : Ids, text : Texts] \cup {NoServer}
        /\ hosts \subseteq Hosts /\ admitted \subseteq Hosts
    BY <2>1 DEF SettingsInit
  <2>5. trouble \in SettingsFaults /\ missed \in BOOLEAN /\ failed \in BOOLEAN
    BY Zenon DEF SettingsInit
  <2>6. served \in 0 .. MaxServed
    BY ServedAssumption DEF SettingsInit
  <2> QED
    BY <2>3, <2>4, <2>5, <2>6 DEF DataType
<1> QED
  BY <1>1, <1>2, TypeStep, PTL DEF SettingsSpec

\* The variables have their types.
THEOREM SettingsTypeCorrect == SettingsSpec => []SettingsTypeOK
<1>1. WorkType /\ DataType => SettingsTypeOK
  <2> SUFFICES ASSUME WorkType, DataType PROVE SettingsTypeOK
    OBVIOUS
  <2>1. DOMAIN rows = {"limit", "id", "pwd"} /\ DOMAIN sysMap \subseteq DOMAIN rows
    BY DEF DataType, RowSet, Copied
  <2>2. \A r \in Requests : req[r].at \in Points /\ req[r].form \in Forms
    BY DEF WorkType, Work
  <2> QED
    BY <2>1, <2>2 DEF DataType, SettingsTypeOK, Ids, Texts, Hosts
<1> QED
  BY <1>1, Typed, PTL

-----------------------------------------------------------------------------
(* Requests that come one after the other.                                 *)

LEMMA NextCases ==
    ASSUME [SettingsNext]_settingsVars
    PROVE  \/ UNCHANGED settingsVars
           \/ \E r \in Requests : \/ \E f \in Forms, a \in {"get", "compare"} : Begin(r, a, f)
                                  \/ Works(r)
           \/ SettingsRestart
BY FormAssumption DEF SettingsNext, Works, UpdateManagerSettingInfo, Login

\* A request that is at work changes nothing of the others.
LEMMA WorksOnItsOwn ==
    ASSUME WorkType, NEW r \in Requests, Works(r)
    PROVE  /\ req[r].at # "idle" /\ served' = served
           /\ \A q \in Requests : q # r => req'[q] = req[q]
<1> USE DEF WorkType, Goes, Ends, Fills
<1>1. CASE ClearMap(r) \/ SelectRows(r) \/ PutRow(r) \/ FillsFirst(r) \/ Throws(r)
           \/ GetSetting(r)
  BY <1>1 DEF ClearMap, SelectRows, PutRow, FillsFirst, Throws, GetSetting
<1>2. CASE CompareSettings(r) \/ CompareHosts(r) \/ DeleteAuthIp(r) \/ InsertAuthIp(r)
           \/ EmptyAdmitted(r) \/ SelectLoginIpList(r) \/ AssignAdmitted(r)
  BY <1>2 DEF CompareSettings, CompareHosts, DeleteAuthIp, InsertAuthIp, EmptyAdmitted,
              SelectLoginIpList, AssignAdmitted
<1>3. CASE AuditSettings(r) \/ UpdateSftpId(r) \/ UpdateSftpPwd(r) \/ WriteSftpInfo(r)
           \/ WriteSftpFails(r) \/ SaveReturns(r) \/ StatementFails(r)
  BY <1>3 DEF AuditSettings, UpdateSftpId, UpdateSftpPwd, WriteSftpInfo, WriteSftpFails,
              SaveReturns, StatementFails
<1> QED
  BY <1>1, <1>2, <1>3 DEF Works

\* One that begins changes no other but for "alone".
LEMMA BeginsOnItsOwn ==
    ASSUME WorkType, NEW r \in Requests, NEW f \in Forms, NEW a \in {"get", "compare"},
           Begin(r, a, f)
    PROVE  /\ req[r].at = "idle" /\ (Quiet \/ "overlap" \in trouble)
           /\ req'[r].at = a /\ req'[r].form = f /\ req'[r].alone = Quiet
           /\ \A q \in Requests : q # r =>
                /\ req'[q].at = req[q].at /\ ~ req'[q].alone
                /\ req'[q].left = req[q].left /\ req'[q].next = req[q].next
                /\ req'[q].read = req[q].read /\ req'[q].hosts = req[q].hosts
                /\ req'[q].form = req[q].form /\ req'[q].changed = req[q].changed
           /\ UNCHANGED <<trouble, rows, hosts, sysMap, admitted, file, missed, failed>>
<1>1. /\ [Idle EXCEPT !.at = a, !.form = f, !.alone = Quiet].at = a
      /\ [Idle EXCEPT !.at = a, !.form = f, !.alone = Quiet].form = f
      /\ [Idle EXCEPT !.at = a, !.form = f, !.alone = Quiet].alone = Quiet
  BY IdleType DEF Work
<1>2. \A q \in Requests : req[q] \in Work
  BY DEF WorkType
<1> QED
  BY <1>1, <1>2 DEF Begin, Work

\* Where the steps lead that neither fill the map nor begin.
LEMMA Leads ==
    ASSUME WorkType, NEW r \in Requests
    PROVE  /\ FillsFirst(r) => req'[r].at = "clear" /\ req'[r].next = req[r].at
           /\ Throws(r) \/ GetSetting(r) \/ SaveReturns(r) \/ StatementFails(r) => req'[r] = Idle
           /\ CompareSettings(r) => req'[r].at = "clear" /\ req'[r].next = "hosts"
           /\ CompareHosts(r) => req'[r].at \in {"delete", "audit", "sftp id"}
           /\ DeleteAuthIp(r) => req'[r].at = "insert"
           /\ InsertAuthIp(r) => req'[r].at \in {"insert", "empty"}
           /\ EmptyAdmitted(r) => req'[r].at = "load"
           /\ SelectLoginIpList(r) => req'[r].at = "assign" /\ req'[r].hosts = hosts
           /\ AssignAdmitted(r) => req'[r].at = "audit"
           /\ AuditSettings(r) => req'[r].at = "sftp id"
           /\ UpdateSftpId(r) => /\ req'[r].at = "sftp pwd" /\ req'[r].form = req[r].form
                                 /\ req'[r].changed = (req[r].form.id # sysMap.id)
           /\ UpdateSftpPwd(r) =>
                /\ req'[r].at = "clear"
                /\ req'[r].next = IF req[r].changed \/ WritesPwd(r) THEN "write" ELSE "saved"
           /\ WriteSftpInfo(r) => req'[r].at = "saved"
           /\ WriteSftpFails(r) => req'[r].at = "saved" \/ req'[r] = Idle
<1> USE DEF WorkType, Work, Goes, Ends, Fills
<1>0. req[r] \in Work
  OBVIOUS
<1>1. FillsFirst(r) => req'[r].at = "clear" /\ req'[r].next = req[r].at
  <2>1. FillsFirst(r) => req' = [req EXCEPT ![r] =
                            [req[r] EXCEPT !.at = "clear", !.next = req[r].at]]
    BY DEF FillsFirst
  <2> QED
    BY <1>0, <2>1
<1>2. Throws(r) \/ GetSetting(r) \/ SaveReturns(r) \/ StatementFails(r) => req'[r] = Idle
  BY DEF Throws, GetSetting, SaveReturns, StatementFails
<1>3. CompareSettings(r) => req'[r].at = "clear" /\ req'[r].next = "hosts"
  BY DEF CompareSettings
<1>4. CompareHosts(r) => req'[r].at \in {"delete", "audit", "sftp id"}
  <2>1. CASE req[r].form.hosts # hosts
    BY <2>1 DEF CompareHosts
  <2>2. CASE req[r].form.hosts = hosts
    <3> DEFINE a == IF req[r].changed THEN "audit" ELSE "sftp id"
    <3>1. CompareHosts(r) => req' = [req EXCEPT ![r].at = a]
      BY <2>2 DEF CompareHosts
    <3>2. a \in {"audit", "sftp id"}
      OBVIOUS
    <3> HIDE DEF a
    <3> QED
      BY <1>0, <3>1, <3>2
  <2> QED
    BY <2>1, <2>2
<1>5. DeleteAuthIp(r) => req'[r].at = "insert"
  BY DEF DeleteAuthIp
<1>6. InsertAuthIp(r) => req'[r].at \in {"insert", "empty"}
  BY DEF InsertAuthIp
<1>7. EmptyAdmitted(r) => req'[r].at = "load"
  BY DEF EmptyAdmitted
<1>8. SelectLoginIpList(r) => req'[r].at = "assign" /\ req'[r].hosts = hosts
  BY DEF SelectLoginIpList
<1>9. AssignAdmitted(r) => req'[r].at = "audit"
  BY DEF AssignAdmitted
<1>10. AuditSettings(r) => req'[r].at = "sftp id"
  BY DEF AuditSettings
<1>11. UpdateSftpId(r) => /\ req'[r].at = "sftp pwd" /\ req'[r].form = req[r].form
                         /\ req'[r].changed = (req[r].form.id # sysMap.id)
  <2>1. UpdateSftpId(r) => req' = [req EXCEPT ![r] =
            [req[r] EXCEPT !.at = "sftp pwd", !.changed = (req[r].form.id # sysMap.id)]]
    BY DEF UpdateSftpId
  <2> QED
    BY <1>0, <2>1
<1>12. UpdateSftpPwd(r) =>
         /\ req'[r].at = "clear"
         /\ req'[r].next = IF req[r].changed \/ WritesPwd(r) THEN "write" ELSE "saved"
  <2> DEFINE n == IF req[r].changed \/ WritesPwd(r) THEN "write" ELSE "saved"
             c == req[r].changed \/ WritesPwd(r)
  <2>1. UpdateSftpPwd(r) => req' = [req EXCEPT ![r] =
                               [req[r] EXCEPT !.at = "clear", !.changed = c, !.next = n]]
    BY DEF UpdateSftpPwd
  <2> HIDE DEF n, c
  <2>2. UpdateSftpPwd(r) => req'[r].at = "clear" /\ req'[r].next = n
    BY <1>0, <2>1
  <2> QED
    BY <2>2 DEF n
<1>13. WriteSftpInfo(r) => req'[r].at = "saved"
  BY DEF WriteSftpInfo
<1>14. WriteSftpFails(r) => req'[r].at = "saved" \/ req'[r] = Idle
  BY DEF WriteSftpFails
<1> QED
  BY <1>1, <1>2, <1>3, <1>4, <1>5, <1>6, <1>7, <1>8, <1>9, <1>10, <1>11, <1>12, <1>13, <1>14

OneRequest == \A q, r \in Requests : q = r \/ req[q].at = "idle" \/ req[r].at = "idle"

LEMMA OneRequestStep ==
    ASSUME WorkType, OneRequest, "overlap" \notin trouble, [SettingsNext]_settingsVars
    PROVE  OneRequest'
<1>1. CASE UNCHANGED settingsVars
  BY <1>1 DEF settingsVars, OneRequest
<1>2. ASSUME NEW r \in Requests, NEW f \in Forms, NEW a \in {"get", "compare"}, Begin(r, a, f)
      PROVE  OneRequest'
  <2>1. \A q \in Requests : req[q].at = "idle"
    BY <1>2, BeginsOnItsOwn DEF Quiet
  <2>2. \A q \in Requests : q # r => req'[q].at = "idle"
    BY <1>2, <2>1, BeginsOnItsOwn
  <2> QED
    BY <2>2 DEF OneRequest
<1>3. ASSUME NEW r \in Requests, Works(r) PROVE OneRequest'
  BY <1>3, WorksOnItsOwn DEF OneRequest
<1>4. CASE SettingsRestart
  BY <1>4, IdleType DEF SettingsRestart, OneRequest
<1> QED
  BY <1>1, <1>2, <1>3, <1>4, NextCases

\* The setting a login reads is the first that is put into the map.
LimitFirst ==
  /\ sysMap # Empty => "limit" \in DOMAIN sysMap
  /\ \A r \in Requests :
       req[r].at = "put" /\ req[r].left # ConfKeys => "limit" \in DOMAIN sysMap

LEMMA LimitStep ==
    ASSUME WorkType, DataType, OneRequest, LimitFirst, ~ missed, "overlap" \notin trouble,
           [SettingsNext]_settingsVars
    PROVE  LimitFirst' /\ ~ missed'
<1>1. CASE UNCHANGED settingsVars
  BY <1>1 DEF settingsVars, LimitFirst
<1>2. ASSUME NEW r \in Requests, NEW f \in Forms, NEW a \in {"get", "compare"}, Begin(r, a, f)
      PROVE  LimitFirst' /\ ~ missed'
  BY <1>2, BeginsOnItsOwn DEF LimitFirst
<1>3. ASSUME NEW r \in Requests, Works(r) PROVE LimitFirst' /\ ~ missed'
  <2>1. \A q \in Requests : q # r => req'[q].at = "idle"
    BY <1>3, WorksOnItsOwn DEF OneRequest
  <2>2. CASE ClearMap(r)
    <3>1. req'[r].at = "select"
      BY <2>2 DEF ClearMap, Goes, WorkType, Work
    <3> QED
      BY <2>1, <2>2, <3>1 DEF ClearMap, LimitFirst
  <2>3. CASE SelectRows(r)
    <3>1. req'[r].left = ConfKeys
      BY <2>3 DEF SelectRows, WorkType, Work
    <3> QED
      BY <2>1, <2>3, <3>1 DEF SelectRows, LimitFirst
  <2>4. CASE PutRow(r)
    <3>1. "limit" \in DOMAIN sysMap'
      BY <2>4 DEF PutRow, LimitFirst, ConfKeys
    <3> QED
      BY <2>4, <3>1 DEF PutRow, LimitFirst
  <2>5. CASE GetSetting(r)
    BY <1>3, <2>1, <2>5, IdleType DEF GetSetting, Ends, HasKeys, LimitFirst, WorkType
  <2>6. CASE ~ (ClearMap(r) \/ SelectRows(r) \/ PutRow(r) \/ GetSetting(r))
    <3>1. sysMap' = sysMap /\ missed' = missed
      BY <1>3, <2>6 DEF Works, FillsFirst, Throws, CompareSettings, CompareHosts,
           DeleteAuthIp, InsertAuthIp, EmptyAdmitted, SelectLoginIpList, AssignAdmitted,
           AuditSettings, UpdateSftpId, UpdateSftpPwd, WriteSftpInfo, WriteSftpFails,
           SaveReturns, StatementFails
    <3>2. req'[r].at # "put"
      BY <1>3, <2>6, IdleType, Leads DEF Works
    <3> QED
      BY <2>1, <3>1, <3>2 DEF LimitFirst
  <2> QED
    BY <2>2, <2>3, <2>4, <2>5, <2>6
<1>4. CASE SettingsRestart
  BY <1>4, IdleType DEF SettingsRestart, LimitFirst, DataType, RowSet
<1> QED
  BY <1>1, <1>2, <1>3, <1>4, NextCases

FoundInTurn == "overlap" \notin trouble => OneRequest /\ LimitFirst /\ ~ missed

LEMMA InTurn == SettingsSpec => [](WorkType /\ DataType /\ FoundInTurn)
<1>1. SettingsInit => FoundInTurn
  BY IdleType DEF SettingsInit, FoundInTurn, OneRequest, LimitFirst, RowsOf
<1>2. WorkType /\ DataType /\ FoundInTurn /\ [SettingsNext]_settingsVars => FoundInTurn'
  BY TroubleStays, OneRequestStep, LimitStep DEF FoundInTurn
<1> QED
  BY <1>1, <1>2, Typed, PTL DEF SettingsSpec

\* Where requests do not overlap, no login meets a map without its setting.
THEOREM LoginsFindSettings == SettingsSpec => []LoginFindsSettings
<1>1. FoundInTurn => LoginFindsSettings
  BY DEF FoundInTurn, LoginFindsSettings
<1> QED
  BY <1>1, InTurn, PTL

-----------------------------------------------------------------------------
(* The addresses.                                                          *)

\* The points of a save at which the two lists differ.
Between == {"insert", "empty", "load", "assign"}

ListLoaded ==
  /\ (\A r \in Requests : req[r].at \notin Between) => admitted = hosts
  /\ \A r \in Requests : req[r].at = "assign" => req[r].hosts = hosts

LEMMA ListStep ==
    ASSUME WorkType, OneRequest, ListLoaded, trouble \cap {"overlap", "fail"} = {},
           [SettingsNext]_settingsVars
    PROVE  ListLoaded'
<1> USE DEF Between
<1>1. CASE UNCHANGED settingsVars
  BY <1>1 DEF settingsVars, ListLoaded
<1>2. ASSUME NEW r \in Requests, NEW f \in Forms, NEW a \in {"get", "compare"}, Begin(r, a, f)
      PROVE  ListLoaded'
  <2>1. Quiet
    BY <1>2, BeginsOnItsOwn
  <2> QED
    BY <1>2, <2>1, BeginsOnItsOwn DEF ListLoaded, Quiet
<1>3. ASSUME NEW r \in Requests, Works(r) PROVE ListLoaded'
  <2>1. \A q \in Requests : q # r => req[q].at = "idle" /\ req'[q].at = "idle"
    BY <1>3, WorksOnItsOwn DEF OneRequest
  <2>2. CASE DeleteAuthIp(r) \/ InsertAuthIp(r) \/ EmptyAdmitted(r)
    BY <2>1, <2>2, Leads DEF ListLoaded
  <2>3. CASE SelectLoginIpList(r)
    BY <2>1, <2>3, Leads DEF SelectLoginIpList, ListLoaded
  <2>4. CASE AssignAdmitted(r)
    BY <2>1, <2>4, Leads DEF AssignAdmitted, ListLoaded
  <2>5. CASE ClearMap(r) \/ SelectRows(r) \/ PutRow(r) \/ FillsFirst(r) \/ Throws(r)
             \/ GetSetting(r) \/ CompareSettings(r) \/ CompareHosts(r)
    <3>1. UNCHANGED <<admitted, hosts>> /\ req[r].at \notin Between
      BY <2>5 DEF ClearMap, SelectRows, PutRow, FillsFirst, Throws, GetSetting,
                  CompareSettings, CompareHosts
    <3>2. req'[r].at \notin Between
      <4>1. CASE PutRow(r)
        BY <4>1 DEF PutRow, WorkType, Work, Nexts
      <4>2. CASE ClearMap(r) \/ SelectRows(r)
        BY <4>2 DEF ClearMap, SelectRows, Goes, WorkType, Work
      <4> QED
        BY <2>5, <4>1, <4>2, Leads, IdleType
    <3> QED
      BY <2>1, <3>1, <3>2 DEF ListLoaded
  <2>6. CASE AuditSettings(r) \/ UpdateSftpId(r) \/ UpdateSftpPwd(r) \/ WriteSftpInfo(r)
             \/ SaveReturns(r)
    <3>1. UNCHANGED <<admitted, hosts>> /\ req[r].at \notin Between
      BY <2>6 DEF AuditSettings, UpdateSftpId, UpdateSftpPwd, WriteSftpInfo, SaveReturns
    <3>2. req'[r].at \notin Between
      BY <2>6, Leads, IdleType
    <3> QED
      BY <2>1, <3>1, <3>2 DEF ListLoaded
  <2>7. ~ StatementFails(r) /\ ~ WriteSftpFails(r)
    BY DEF StatementFails, WriteSftpFails
  <2> QED
    BY <1>3, <2>2, <2>3, <2>4, <2>5, <2>6, <2>7 DEF Works
<1>4. CASE SettingsRestart
  BY <1>4, IdleType DEF SettingsRestart, ListLoaded
<1> QED
  BY <1>1, <1>2, <1>3, <1>4, NextCases

ListInTurn == trouble \cap {"overlap", "fail"} = {} => ListLoaded

\* Between two requests the list that is checked is that of the table, also
\* after a stop in the middle of a save.
THEOREM StoredAddressesInForce == SettingsSpec => []AddressesInForce
<1>1. SettingsInit => ListInTurn
  BY IdleType DEF SettingsInit, ListInTurn, ListLoaded
<1>2. WorkType /\ DataType /\ FoundInTurn /\ ListInTurn /\ [SettingsNext]_settingsVars
        => ListInTurn'
  BY TroubleStays, ListStep DEF FoundInTurn, ListInTurn
<1>3. ListInTurn => AddressesInForce
  BY DEF ListInTurn, ListLoaded, AddressesInForce, Quiet, Between
<1> QED
  BY <1>1, <1>2, <1>3, InTurn, PTL DEF SettingsSpec

-----------------------------------------------------------------------------
(* The map after a save.                                                   *)

\* How far r has filled the map with the rows as they are.
FilledSoFar(r) ==
  /\ req[r].read = rows
  /\ req[r].left # ConfKeys => "limit" \in DOMAIN sysMap /\ sysMap["limit"] = rows["limit"]
  /\ req[r].left = <<"pwd">> => "id" \in DOMAIN sysMap /\ sysMap["id"] = rows["id"]

LEMMA PutFills ==
    ASSUME WorkType, DataType, NEW r \in Requests, PutRow(r), FilledSoFar(r)
    PROVE  \/ req'[r].at = "put" /\ FilledSoFar(r)'
           \/ req'[r].at = req[r].next /\ sysMap' = rows'
<1> DEFINE k == Head(req[r].left)
<1>0. /\ req[r] \in Work /\ req[r].left \in Lefts \ {<<>>} /\ rows' = rows
      /\ sysMap' = [x \in DOMAIN sysMap \union {k} |->
                      IF x = k THEN rows[k] ELSE sysMap[x]]
  BY DEF PutRow, WorkType, Work, FilledSoFar
<1>1. CASE req[r].left = ConfKeys
  <2>1. k = "limit" /\ Len(req[r].left) = 3 /\ Tail(req[r].left) = <<"id", "pwd">>
    BY <1>1 DEF ConfKeys
  <2>2. req'[r] = [req[r] EXCEPT !.left = Tail(@)]
    BY <2>1 DEF PutRow, WorkType
  <2>3. req'[r].at = "put" /\ req'[r].left = <<"id", "pwd">> /\ req'[r].read = rows
    BY <1>0, <2>1, <2>2 DEF PutRow, FilledSoFar, Work
  <2>4. <<"id", "pwd">> # <<"pwd">>
    OBVIOUS
  <2> QED
    BY <1>0, <2>1, <2>3, <2>4 DEF FilledSoFar
<1>2. CASE req[r].left = <<"id", "pwd">>
  <2>1. k = "id" /\ Len(req[r].left) = 2 /\ Tail(req[r].left) = <<"pwd">>
        /\ <<"id", "pwd">> # ConfKeys
    BY <1>2 DEF ConfKeys
  <2>2. req'[r] = [req[r] EXCEPT !.left = Tail(@)]
    BY <2>1 DEF PutRow, WorkType
  <2>3. req'[r].at = "put" /\ req'[r].left = <<"pwd">> /\ req'[r].read = rows
    BY <1>0, <2>1, <2>2 DEF PutRow, FilledSoFar, Work
  <2> QED
    BY <1>0, <1>2, <2>1, <2>3 DEF FilledSoFar
<1>3. CASE req[r].left = <<"pwd">>
  <2>1. k = "pwd" /\ Len(req[r].left) = 1 /\ <<"pwd">> # ConfKeys
    BY <1>3 DEF ConfKeys
  <2>2. req'[r].at = req[r].next
    BY <1>0, <2>1 DEF PutRow, WorkType, Work
  <2>3. DOMAIN sysMap' = {"limit", "id", "pwd"}
    BY <1>0, <1>3, <2>1 DEF FilledSoFar, DataType, Copied
  <2>4. sysMap' = rows
    BY <1>0, <1>3, <2>1, <2>3 DEF FilledSoFar, DataType, RowSet
  <2> QED
    BY <1>0, <2>2, <2>4
<1> QED
  BY <1>0, <1>1, <1>2, <1>3 DEF Lefts, ConfKeys

LEMMA SelectStarts ==
    ASSUME WorkType, NEW r \in Requests, SelectRows(r)
    PROVE  req'[r].at = "put" /\ FilledSoFar(r)'
<1>1. req'[r].at = "put" /\ req'[r].read = rows /\ req'[r].left = ConfKeys /\ rows' = rows
  BY DEF SelectRows, WorkType, Work
<1>2. ConfKeys # <<"pwd">>
  BY DEF ConfKeys
<1> QED
  BY <1>1, <1>2 DEF FilledSoFar

\* A request ceases to be alone, but does not come to be it.
LEMMA StaysAlone ==
    ASSUME WorkType, NEW r \in Requests, Works(r), req'[r].alone PROVE req[r].alone
<1>0. Idle.alone = FALSE
  BY DEF Idle
<1> USE DEF WorkType, Work, Goes, Ends, Fills
<1>1. CASE ClearMap(r) \/ SelectRows(r) \/ FillsFirst(r) \/ Throws(r) \/ GetSetting(r)
  BY <1>0, <1>1 DEF ClearMap, SelectRows, FillsFirst, Throws, GetSetting
<1>2. CASE PutRow(r)
  <2>1. CASE Len(req[r].left) > 1
    BY <1>2, <2>1 DEF PutRow
  <2>2. CASE ~ (Len(req[r].left) > 1)
    BY <1>2, <2>2 DEF PutRow
  <2> QED
    BY <2>1, <2>2
<1>3. CASE CompareSettings(r) \/ DeleteAuthIp(r) \/ EmptyAdmitted(r)
           \/ SelectLoginIpList(r) \/ AssignAdmitted(r)
  BY <1>3 DEF CompareSettings, DeleteAuthIp, EmptyAdmitted, SelectLoginIpList,
              AssignAdmitted
<1>8. CASE CompareHosts(r)
  <2>1. \E a : req' = [req EXCEPT ![r].at = a]
    BY <1>8 DEF CompareHosts
  <2> QED
    BY <2>1
<1>4. CASE InsertAuthIp(r)
  BY <1>4 DEF InsertAuthIp
<1>5. CASE AuditSettings(r) \/ UpdateSftpId(r) \/ WriteSftpInfo(r)
  BY <1>5 DEF AuditSettings, UpdateSftpId, WriteSftpInfo
<1>6. CASE UpdateSftpPwd(r)
  BY <1>6 DEF UpdateSftpPwd
<1>7. CASE WriteSftpFails(r) \/ SaveReturns(r) \/ StatementFails(r)
  BY <1>0, <1>7 DEF WriteSftpFails, SaveReturns, StatementFails
<1> QED
  BY <1>1, <1>2, <1>3, <1>4, <1>5, <1>6, <1>7, <1>8 DEF Works

AloneFills ==
  \A r \in Requests : req[r].alone =>
    /\ \A q \in Requests : q # r => req[q].at = "idle"
    /\ req[r].at = "put" => FilledSoFar(r)
    /\ req[r].at \in {"write", "saved"} => sysMap = rows

LEMMA AloneStep ==
    ASSUME WorkType, DataType, AloneFills, [SettingsNext]_settingsVars PROVE AloneFills'
<1>1. CASE UNCHANGED settingsVars
  BY <1>1 DEF settingsVars, AloneFills, FilledSoFar
<1>2. ASSUME NEW r \in Requests, NEW f \in Forms, NEW a \in {"get", "compare"}, Begin(r, a, f)
      PROVE  AloneFills'
  <2>1. \A q \in Requests : q # r => ~ req'[q].alone /\ req'[q].at = req[q].at
    BY <1>2, BeginsOnItsOwn
  <2>2. req'[r].at \notin {"put", "write", "saved"} /\ req'[r].alone = Quiet
    BY <1>2, BeginsOnItsOwn
  <2>3. req'[r].alone => \A q \in Requests : q # r => req'[q].at = "idle"
    BY <2>1, <2>2 DEF Quiet
  <2> QED
    BY <2>1, <2>2, <2>3 DEF AloneFills
<1>3. ASSUME NEW r \in Requests, Works(r) PROVE AloneFills'
  <2>1. \A q \in Requests : q # r => req'[q] = req[q] /\ ~ req[q].alone
    BY <1>3, WorksOnItsOwn DEF AloneFills
  <2> SUFFICES ASSUME req'[r].alone
               PROVE  /\ \A q \in Requests : q # r => req[q].at = "idle"
                      /\ req'[r].at = "put" => FilledSoFar(r)'
                      /\ req'[r].at \in {"write", "saved"} => sysMap' = rows'
    BY <2>1 DEF AloneFills
  <2>2. req[r].alone
    BY <1>3, StaysAlone
  <2>3. CASE SelectRows(r)
    BY <2>2, <2>3, SelectStarts DEF AloneFills
  <2>4. CASE PutRow(r)
    <3>1. req[r].next # "put"
      BY DEF WorkType, Work, Nexts
    <3>2. FilledSoFar(r)
      BY <2>2, <2>4 DEF PutRow, AloneFills
    <3> QED
      BY <2>2, <2>4, <3>1, <3>2, PutFills DEF AloneFills
  <2>5. CASE WriteSftpInfo(r) \/ WriteSftpFails(r)
    <3>1. req[r].at = "write" /\ UNCHANGED <<sysMap, rows>>
      BY <2>5 DEF WriteSftpInfo, WriteSftpFails
    <3>2. req'[r].at \in {"saved", "idle"}
      BY <2>5, Leads, IdleType
    <3> QED
      BY <2>2, <3>1, <3>2 DEF AloneFills
  <2>6. CASE ClearMap(r)
    <3>1. req'[r].at = "select"
      BY <2>6 DEF ClearMap, Goes, WorkType, Work
    <3> QED
      BY <2>2, <3>1 DEF AloneFills
  <2>7. CASE ~ (SelectRows(r) \/ PutRow(r) \/ WriteSftpInfo(r) \/ WriteSftpFails(r)
                \/ ClearMap(r))
    <3>1. req'[r].at \notin {"put", "write", "saved"}
      BY <1>3, <2>7, Leads, IdleType DEF Works
    <3> QED
      BY <2>2, <3>1 DEF AloneFills
  <2> QED
    BY <2>3, <2>4, <2>5, <2>6, <2>7
<1>4. CASE SettingsRestart
  BY <1>4, IdleType DEF SettingsRestart, AloneFills, Idle
<1> QED
  BY <1>1, <1>2, <1>3, <1>4, NextCases

\* Whatever was left in the map, a save that nobody else comes between leaves
\* it equal to the rows.
THEOREM SavesSettle == SettingsSpec => []SaveAloneSettles
<1>1. SettingsInit => AloneFills
  BY DEF SettingsInit, Idle, AloneFills
<1>2. AloneFills => SaveAloneSettles
  BY DEF AloneFills, SaveAloneSettles
<1> QED
  BY <1>1, <1>2, Typed, AloneStep, PTL DEF SettingsSpec

-----------------------------------------------------------------------------
(* The file for the sensors, where nothing goes wrong.                     *)

Pair == rows.pwd.with = rows.id
FileNow == file = [id |-> rows.id, text |-> rows.pwd.text]

\* The points at which the map is not the rows, or the file is not of them.
Filling == {"clear", "select", "put"}
Behind  == Filling \union {"sftp pwd", "write"}

\* At "sftp pwd" the map still holds the name the password is encrypted with.
Renamed(r) ==
  /\ rows.id = req[r].form.id /\ sysMap.pwd = rows.pwd /\ sysMap.pwd.with = sysMap.id
  /\ DOMAIN sysMap = {"limit", "id", "pwd"}
  /\ req[r].changed = (req[r].form.id # sysMap.id)
  /\ file = [id |-> sysMap.id, text |-> sysMap.pwd.text]

FileFollows ==
  /\ (\A r \in Requests : req[r].at \notin Behind) => sysMap = rows /\ Pair /\ FileNow
  /\ \A r \in Requests :
       /\ req[r].at \in Filling => /\ Pair /\ req[r].next \in {"hosts", "write", "saved"}
                                   /\ req[r].next # "write" => FileNow
       /\ req[r].at = "put" => FilledSoFar(r)
       /\ req[r].at = "sftp pwd" => Renamed(r)
       /\ req[r].at = "write" => sysMap = rows /\ Pair

LEMMA FileStep ==
    ASSUME WorkType, DataType, OneRequest, FileFollows, trouble = {},
           [SettingsNext]_settingsVars
    PROVE  FileFollows'
<1>0. /\ rows \in RowSet
      /\ sysMap = rows => sysMap # Empty /\ HasKeys({"limit", "id", "pwd"})
  BY DEF DataType, RowSet, Empty, HasKeys
<1>1. CASE UNCHANGED settingsVars
  BY <1>1 DEF settingsVars, FileFollows, Pair, FileNow, FilledSoFar, Renamed
<1>2. ASSUME NEW r \in Requests, NEW f \in Forms, NEW a \in {"get", "compare"}, Begin(r, a, f)
      PROVE  FileFollows'
  <2>1. \A q \in Requests : req[q].at = "idle" /\ req'[q].at \notin Behind
    BY <1>2, BeginsOnItsOwn DEF Quiet, Behind, Filling
  <2>2. sysMap = rows /\ Pair /\ FileNow
    BY <2>1 DEF FileFollows, Behind, Filling
  <2>3. UNCHANGED <<sysMap, rows, file>>
    BY <1>2, BeginsOnItsOwn
  <2> QED
    BY <2>1, <2>2, <2>3 DEF FileFollows, Behind, Filling, Pair, FileNow
<1>3. ASSUME NEW r \in Requests, Works(r) PROVE FileFollows'
  <2>0. req[r] \in Work
    BY DEF WorkType
  <2>1. \A q \in Requests : q # r => req[q].at = "idle" /\ req'[q].at = "idle"
    BY <1>3, WorksOnItsOwn DEF OneRequest
  <2>2. req[r].at \notin Behind => sysMap = rows /\ Pair /\ FileNow
    BY <2>1 DEF FileFollows, Behind, Filling
  \* Others are idle, so only what is said of r remains to be shown.
  <2>3. ASSUME req'[r].at \notin Behind, (sysMap = rows /\ Pair /\ FileNow)' PROVE FileFollows'
    BY <2>1, <2>3 DEF FileFollows, Behind, Filling
  <2>4. ASSUME req'[r].at \in {"clear", "select"}, Pair',
               req'[r].next \in {"hosts", "write", "saved"},
               req'[r].next # "write" => FileNow'
        PROVE  FileFollows'
    BY <2>1, <2>4 DEF FileFollows, Behind, Filling
  <2>5. CASE ClearMap(r)
    <3>1. req'[r].at = "select" /\ req'[r].next = req[r].next /\ UNCHANGED <<rows, file>>
          /\ req[r].at = "clear"
      BY <2>0, <2>5 DEF ClearMap, Goes, WorkType, Work
    <3> QED
      BY <2>4, <3>1 DEF FileFollows, Filling, Pair, FileNow
  <2>6. CASE SelectRows(r)
    <3>1. req'[r].next = req[r].next /\ UNCHANGED <<rows, file>> /\ req[r].at = "select"
      BY <2>0, <2>6 DEF SelectRows, WorkType, Work
    <3> QED
      BY <2>1, <2>6, <3>1, SelectStarts DEF FileFollows, Filling, Behind, Pair, FileNow
  <2>7. CASE PutRow(r)
    <3>1. UNCHANGED <<rows, file>> /\ req[r].at = "put" /\ FilledSoFar(r) /\ Pair
          /\ req[r].next \in {"hosts", "write", "saved"}
          /\ (req[r].next # "write" => FileNow)
      BY <2>7 DEF PutRow, FileFollows, Filling
    <3>2. CASE req'[r].at = "put" /\ FilledSoFar(r)'
      <4>1. req'[r].next = req[r].next
        <5>1. CASE Len(req[r].left) > 1
          BY <2>0, <2>7, <5>1 DEF PutRow, WorkType, Work
        <5>2. CASE ~ (Len(req[r].left) > 1)
          BY <2>0, <2>7, <5>2 DEF PutRow, WorkType, Work
        <5> QED
          BY <5>1, <5>2
      <4> QED
        BY <2>1, <3>1, <3>2, <4>1 DEF FileFollows, Filling, Behind, Pair, FileNow
    <3>3. CASE req'[r].at = req[r].next /\ sysMap' = rows'
      BY <2>1, <3>1, <3>3 DEF FileFollows, Filling, Behind, Pair, FileNow
    <3> QED
      BY <2>7, <3>1, <3>2, <3>3, PutFills
  <2>8. CASE FillsFirst(r) \/ Throws(r) \/ StatementFails(r)
    <3>1. ~ StatementFails(r)
      BY DEF StatementFails
    <3>2. req[r].at \in {"get", "compare", "audit", "sftp id", "sftp pwd", "write"}
      BY <2>8, <3>1 DEF FillsFirst, Throws
    <3>3. sysMap # Empty /\ HasKeys({"limit", "id", "pwd"}) /\ Decrypts
      <4>1. CASE req[r].at = "sftp pwd"
        <5>1. Renamed(r)
          BY <4>1 DEF FileFollows
        <5> QED
          BY <5>1 DEF Renamed, Decrypts, HasKeys, Empty
      <4>2. CASE req[r].at # "sftp pwd"
        <5>1. sysMap = rows /\ Pair
          BY <2>2, <3>2, <4>2 DEF FileFollows, Behind, Filling
        <5> QED
          BY <1>0, <5>1 DEF Pair, Decrypts, HasKeys
      <4> QED
        BY <4>1, <4>2
    <3> QED
      BY <2>8, <3>1, <3>3 DEF FillsFirst, Throws, HasKeys
  <2>9. CASE GetSetting(r) \/ SaveReturns(r)
    <3>1. req'[r].at = "idle" /\ req[r].at \notin Behind /\ UNCHANGED <<sysMap, rows, file>>
      BY <2>9, Leads, IdleType DEF GetSetting, SaveReturns, Behind, Filling
    <3> QED
      BY <2>2, <2>3, <3>1 DEF Behind, Filling, Pair, FileNow
  <2>10. CASE CompareSettings(r)
    <3>1. req[r].at \notin Behind /\ file' = file
          /\ rows'.id = rows.id /\ rows'.pwd = rows.pwd
      BY <1>0, <2>10 DEF CompareSettings, Behind, Filling, RowSet
    <3>2. Pair' /\ FileNow'
      BY <2>2, <3>1 DEF Pair, FileNow
    <3> QED
      BY <2>4, <2>10, <3>2, Leads
  <2>11. CASE CompareHosts(r) \/ DeleteAuthIp(r) \/ InsertAuthIp(r) \/ EmptyAdmitted(r)
              \/ SelectLoginIpList(r) \/ AssignAdmitted(r) \/ AuditSettings(r)
    <3>1. req[r].at \notin Behind /\ UNCHANGED <<sysMap, rows, file>>
      BY <2>11 DEF CompareHosts, DeleteAuthIp, InsertAuthIp, EmptyAdmitted,
           SelectLoginIpList, AssignAdmitted, AuditSettings, Behind, Filling
    <3>2. req'[r].at \notin Behind
      BY <2>11, Leads DEF Behind, Filling
    <3> QED
      BY <2>2, <2>3, <3>1, <3>2 DEF Pair, FileNow
  <2>12. CASE UpdateSftpId(r)
    <3>1. sysMap = rows /\ Pair /\ FileNow
      BY <2>2, <2>12 DEF UpdateSftpId, Behind, Filling
    <3>2. rows'.id = req[r].form.id /\ rows'.pwd = rows.pwd /\ sysMap' = sysMap /\ file' = file
      BY <1>0, <2>12, <3>1 DEF UpdateSftpId, RowSet
    <3>3. req'[r].at = "sftp pwd" /\ req'[r].form = req[r].form
          /\ req'[r].changed = (req[r].form.id # sysMap.id)
      BY <2>12, Leads
    <3>4. Renamed(r)'
      BY <1>0, <3>1, <3>2, <3>3 DEF Renamed, Pair, FileNow, RowSet
    <3> QED
      BY <2>1, <3>3, <3>4 DEF FileFollows, Behind, Filling
  <2>13. CASE UpdateSftpPwd(r)
    <3>1. Renamed(r) /\ file' = file
      BY <2>13 DEF UpdateSftpPwd, FileFollows
    <3>2. CASE WritesPwd(r)
      <4>1. rows'.id = rows.id /\ rows'.pwd = Encrypted(req[r].form.text, req[r].form.id)
        BY <1>0, <2>13, <3>2 DEF UpdateSftpPwd, RowSet
      <4>2. Pair'
        BY <3>1, <4>1 DEF Pair, Encrypted, Renamed
      <4> QED
        BY <2>4, <2>13, <3>2, <4>2, Leads
    <3>3. CASE ~ WritesPwd(r)
      <4>1. rows' = rows /\ ~ req[r].changed
        BY <1>0, <2>13, <3>3 DEF UpdateSftpPwd, RowSet, WritesPwd
      <4>2. Pair' /\ FileNow'
        BY <3>1, <4>1 DEF Pair, FileNow, Renamed
      <4> QED
        BY <2>4, <2>13, <3>3, <4>1, <4>2, Leads
    <3> QED
      BY <3>2, <3>3
  <2>14. CASE WriteSftpInfo(r)
    <3>1. sysMap = rows /\ Pair /\ UNCHANGED <<sysMap, rows>>
          /\ file' = [id |-> sysMap.id, text |-> sysMap.pwd.text]
      BY <2>14 DEF WriteSftpInfo, FileFollows
    <3>2. req'[r].at = "saved"
      BY <2>14, Leads
    <3> QED
      BY <2>3, <3>1, <3>2 DEF Pair, FileNow, Behind, Filling
  <2>15. ~ WriteSftpFails(r)
    BY DEF WriteSftpFails
  <2> QED
    BY <1>3, <2>5, <2>6, <2>7, <2>8, <2>9, <2>10, <2>11, <2>12, <2>13, <2>14, <2>15 DEF Works
<1>4. ~ SettingsRestart
  BY DEF SettingsRestart
<1> QED
  BY <1>1, <1>2, <1>3, <1>4, NextCases

FileInCalm == trouble = {} => FileFollows

\* Where nothing goes wrong, the sensors are told what the rows say.
THEOREM FileIsCurrent == SettingsSpec => []SensorFileCurrent
<1>1. SettingsInit => FileInCalm
  <2>1. RowsOf(StartForm).pwd.with = RowsOf(StartForm).id
        /\ FileOf(StartForm) = [id |-> RowsOf(StartForm).id, text |-> RowsOf(StartForm).pwd.text]
    BY DEF RowsOf, FileOf, Encrypted
  <2> QED
    BY <2>1, IdleType DEF SettingsInit, FileInCalm, FileFollows, Behind, Filling, Pair, FileNow
<1>2. WorkType /\ DataType /\ FoundInTurn /\ FileInCalm /\ [SettingsNext]_settingsVars
        => FileInCalm'
  BY TroubleStays, FileStep DEF FoundInTurn, FileInCalm
<1>3. FileInCalm => SensorFileCurrent
  BY DEF FileInCalm, FileFollows, SensorFileCurrent, Quiet, Behind, Filling, FileNow
<1> QED
  BY <1>1, <1>2, <1>3, InTurn, PTL DEF SettingsSpec
=============================================================================
