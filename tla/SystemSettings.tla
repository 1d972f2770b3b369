--------------------------- MODULE SystemSettings ---------------------------
(***************************************************************************)
(* The settings page and what the console keeps of it in static fields:    *)
(* SystemConfService.sysMap, a copy of the rows of SYSTEM_CONFIG, and      *)
(* AccountService.authLoginIp, a copy of those of SYSTEM_HOST.  Every      *)
(* thread that saves the page, and every login that finds sysMap empty,    *)
(* clears and fills them, under no lock and in no transaction.             *)
(***************************************************************************)
EXTENDS Naturals, Sequences

CONSTANTS
  Requests,      \* the threads of the server that save the page or log somebody in
  Forms,         \* what the page may be saved with: [limit, id, text, hosts]
  StartForm,     \* what it was last saved with before
  MaxServed,     \* bound: requests in a run
  SettingsFaults \* the sets of "overlap", "fail" and "restart" that are tried: requests
                 \* at a time, one statement or write of the file that fails, a stop

ASSUME FormAssumption ==
  StartForm \in Forms /\ \A f \in Forms : f.hosts # {} /\ DOMAIN f = {"limit", "id", "text", "hosts"}
ASSUME ServedAssumption == MaxServed \in Nat
ASSUME FaultsAssumption == SettingsFaults \subseteq SUBSET {"overlap", "fail", "restart"}

(* The rows in the order of the SELECT: a setting of the login, and the    *)
(* name and the password of the SFTP server, which is encrypted with the   *)
(* name.                                                                   *)
ConfKeys == <<"limit", "id", "pwd">>
Encrypted(text, id) == [text |-> text, with |-> id]
RowsOf(f) == [limit |-> f.limit, id |-> f.id, pwd |-> Encrypted(f.text, f.id)]
FileOf(f) == [id |-> f.id, text |-> f.text]
(* A file that was written with "" for both, or cut when it was opened. *)
NoServer == [id |-> "", text |-> ""]
Empty == <<>>

VARIABLES
  trouble,   \* what goes wrong in this run: rigid
  rows,      \* SYSTEM_CONFIG
  hosts,     \* SYSTEM_HOST: the addresses people may log in from
  sysMap,    \* the copy of the rows: a function of the keys it has
  admitted,  \* authLoginIp
  file,      \* the file of the SFTP server that the sensors read
  req,       \* what each request is doing
  missed,    \* has a login met a setting that is not there?
  served,    \* requests so far
  failed     \* has a statement failed, or a write?

settingsVars == <<trouble, rows, hosts, sysMap, admitted, file, req, missed, served, failed>>

Idle == [at |-> "idle", form |-> StartForm, read |-> RowsOf(StartForm), left |-> <<>>,
         hosts |-> {}, next |-> "idle", changed |-> FALSE, alone |-> FALSE]

SettingsInit ==
  /\ trouble \in SettingsFaults
  /\ rows = RowsOf(StartForm) /\ hosts = StartForm.hosts
  /\ sysMap = rows /\ admitted = hosts /\ file = FileOf(StartForm)
  /\ req = [r \in Requests |-> Idle]
  /\ missed = FALSE /\ served = 0 /\ failed = FALSE

Quiet == \A r \in Requests : req[r].at = "idle"
Goes(r, at) == req' = [req EXCEPT ![r].at = at]
Ends(r) == req' = [req EXCEPT ![r] = Idle]
(* init() of the map, and then on with "next" *)
Fills(r, next) == req' = [req EXCEPT ![r].at = "clear", ![r].next = next]

----------------------------------------------------------------------------
Begin(r, at, f) ==
  /\ req[r].at = "idle" /\ served < MaxServed
  /\ Quiet \/ "overlap" \in trouble
  /\ served' = served + 1
  /\ req' = [q \in Requests |->
       IF q = r THEN [Idle EXCEPT !.at = at, !.form = f, !.alone = Quiet]
       ELSE [req[q] EXCEPT !.alone = FALSE]]
  /\ UNCHANGED <<trouble, rows, hosts, sysMap, admitted, file, missed, failed>>

UpdateManagerSettingInfo(r) == \E f \in Forms : Begin(r, "compare", f)
Login(r) == Begin(r, "get", StartForm)

(* SystemConfService.init *)
ClearMap(r) ==
  /\ req[r].at = "clear" /\ sysMap' = Empty /\ Goes(r, "select")
  /\ UNCHANGED <<trouble, rows, hosts, admitted, file, missed, served, failed>>
SelectRows(r) ==
  /\ req[r].at = "select"
  /\ req' = [req EXCEPT ![r].at = "put", ![r].read = rows, ![r].left = ConfKeys]
  /\ UNCHANGED <<trouble, rows, hosts, sysMap, admitted, file, missed, served, failed>>
PutRow(r) ==
  /\ req[r].at = "put"
  /\ LET k == Head(req[r].left) IN
       sysMap' = [x \in DOMAIN sysMap \union {k} |-> IF x = k THEN req[r].read[k] ELSE sysMap[x]]
  /\ req' = [req EXCEPT ![r] =
       IF Len(req[r].left) > 1 THEN [req[r] EXCEPT !.left = Tail(@)]
       ELSE [req[r] EXCEPT !.at = req[r].next, !.left = <<>>, !.read = Idle.read]]
  /\ UNCHANGED <<trouble, rows, hosts, admitted, file, missed, served, failed>>

(***************************************************************************)
(* The getters: an empty map is filled first; without the key, getValue    *)
(* throws a NullPointerException and the request ends.                     *)
(***************************************************************************)
HasKeys(ks) == ks \subseteq DOMAIN sysMap
(* Is the password encrypted with the name?  If not, decryptString throws. *)
Decrypts == HasKeys({"id", "pwd"}) /\ sysMap.pwd.with = sysMap.id
FillsFirst(r) ==
  /\ req[r].at \in {"get", "audit", "sftp id", "sftp pwd", "write"} /\ sysMap = Empty
  /\ Fills(r, req[r].at)
  /\ UNCHANGED <<trouble, rows, hosts, sysMap, admitted, file, missed, served, failed>>
Throws(r) ==
  /\ \/ req[r].at = "compare" /\ ~ HasKeys({"limit"})
     \/ req[r].at = "audit" /\ sysMap # Empty /\ ~ HasKeys({"limit"})
     \/ req[r].at = "sftp id" /\ sysMap # Empty /\ ~ HasKeys({"id"})
     \/ req[r].at \in {"sftp pwd", "write"} /\ sysMap # Empty /\ ~ Decrypts
  /\ Ends(r)
  /\ UNCHANGED <<trouble, rows, hosts, sysMap, admitted, file, missed, served, failed>>

(* A login's getUserLockFailCount *)
GetSettingOnly(r) ==  \* (mutant: the map is taken for filled)
  /\ req[r].at = "get" /\ Ends(r)
  /\ missed' = (missed \/ ~ HasKeys({"limit"}))
  /\ UNCHANGED <<trouble, rows, hosts, sysMap, admitted, file, served, failed>>
GetSetting(r) ==
  /\ req[r].at = "get" /\ sysMap # Empty /\ Ends(r)
  /\ missed' = (missed \/ ~ HasKeys({"limit"}))
  /\ UNCHANGED <<trouble, rows, hosts, sysMap, admitted, file, served, failed>>

(* updateSystemConfChange: the row is written if the form differs from the map. *)
CompareSettings(r) ==
  /\ req[r].at = "compare" /\ HasKeys({"limit"})
  /\ rows' = [rows EXCEPT !.limit = IF req[r].form.limit = sysMap.limit THEN @ ELSE req[r].form.limit]
  /\ req' = [req EXCEPT ![r].at = "clear", ![r].next = "hosts",
                        ![r].changed = req[r].form.limit # sysMap.limit]
  /\ UNCHANGED <<trouble, hosts, sysMap, admitted, file, missed, served, failed>>

(* The addresses, in updateSystemConf, insertLoginAuthIp and authLoginIpInti *)
CompareHosts(r) ==
  /\ req[r].at = "hosts"
  /\ IF req[r].form.hosts # hosts THEN Goes(r, "delete")
     ELSE Goes(r, IF req[r].changed THEN "audit" ELSE "sftp id")
  /\ UNCHANGED <<trouble, rows, hosts, sysMap, admitted, file, missed, served, failed>>
DeleteAuthIp(r) ==
  /\ req[r].at = "delete" /\ hosts' = {}
  /\ req' = [req EXCEPT ![r].at = "insert", ![r].hosts = req[r].form.hosts]
  /\ UNCHANGED <<trouble, rows, sysMap, admitted, file, missed, served, failed>>
InsertAuthIpOnly(r) ==  \* (mutant: the list that is checked is not loaded again)
  /\ req[r].at = "insert"
  /\ \E h \in req[r].hosts :
       /\ hosts' = hosts \union {h}
       /\ req' = [req EXCEPT ![r].hosts = @ \ {h},
                             ![r].at = IF req[r].hosts = {h} THEN "audit" ELSE "insert"]
  /\ UNCHANGED <<trouble, rows, sysMap, admitted, file, missed, served, failed>>
InsertAuthIp(r) ==
  /\ req[r].at = "insert"
  /\ \E h \in req[r].hosts :
       /\ hosts' = hosts \union {h}
       /\ req' = [req EXCEPT ![r].hosts = @ \ {h},
                             ![r].at = IF req[r].hosts = {h} THEN "empty" ELSE "insert"]
  /\ UNCHANGED <<trouble, rows, sysMap, admitted, file, missed, served, failed>>
EmptyAdmitted(r) ==
  /\ req[r].at = "empty" /\ admitted' = {} /\ Goes(r, "load")
  /\ UNCHANGED <<trouble, rows, hosts, sysMap, file, missed, served, failed>>
SelectLoginIpList(r) ==
  /\ req[r].at = "load"
  /\ req' = [req EXCEPT ![r].at = "assign", ![r].hosts = hosts]
  /\ UNCHANGED <<trouble, rows, hosts, sysMap, admitted, file, missed, served, failed>>
AssignAdmitted(r) ==
  /\ req[r].at = "assign" /\ admitted' = req[r].hosts
  /\ req' = [req EXCEPT ![r].at = "audit", ![r].hosts = {}]
  /\ UNCHANGED <<trouble, rows, hosts, sysMap, file, missed, served, failed>>
(* The row of the audit log names the settings, so it reads them. *)
AuditSettings(r) ==
  /\ req[r].at = "audit" /\ HasKeys({"limit"}) /\ Goes(r, "sftp id")
  /\ UNCHANGED <<trouble, rows, hosts, sysMap, admitted, file, missed, served, failed>>

(* updateSftpChange: two rows, and the second depends on the first. *)
UpdateSftpId(r) ==
  /\ req[r].at = "sftp id" /\ HasKeys({"id"})
  /\ rows' = [rows EXCEPT !.id = IF req[r].form.id = sysMap.id THEN @ ELSE req[r].form.id]
  /\ req' = [req EXCEPT ![r].at = "sftp pwd", ![r].changed = req[r].form.id # sysMap.id]
  /\ UNCHANGED <<trouble, hosts, sysMap, admitted, file, missed, served, failed>>
WritesPwdIfNew(r) ==  \* (mutant: a new name does not encrypt the password again)
  req[r].form.text # sysMap.pwd.text
WritesPwd(r) == req[r].form.text # sysMap.pwd.text \/ req[r].changed
UpdateSftpPwdKeeps(r) ==  \* (mutant: the map is not filled again)
  /\ req[r].at = "sftp pwd" /\ Decrypts
  /\ rows' = [rows EXCEPT !.pwd =
                IF WritesPwd(r) THEN Encrypted(req[r].form.text, req[r].form.id) ELSE @]
  /\ Goes(r, IF req[r].changed \/ WritesPwd(r) THEN "write" ELSE "saved")
  /\ UNCHANGED <<trouble, hosts, sysMap, admitted, file, missed, served, failed>>
UpdateSftpPwd(r) ==
  /\ req[r].at = "sftp pwd" /\ Decrypts
  /\ rows' = [rows EXCEPT !.pwd =
                IF WritesPwd(r) THEN Encrypted(req[r].form.text, req[r].form.id) ELSE @]
  /\ req' = [req EXCEPT ![r].at = "clear", ![r].changed = @ \/ WritesPwd(r),
                        ![r].next = IF req[r].changed \/ WritesPwd(r) THEN "write" ELSE "saved"]
  /\ UNCHANGED <<trouble, hosts, sysMap, admitted, file, missed, served, failed>>
WriteSftpInfo(r) ==
  /\ req[r].at = "write" /\ Decrypts
  /\ file' = [id |-> sysMap.id, text |-> sysMap.pwd.text] /\ Goes(r, "saved")
  /\ UNCHANGED <<trouble, rows, hosts, sysMap, admitted, missed, served, failed>>
(* If the file cannot be written or the sensors not be told, its catch     *)
(* writes one with neither name nor password; that may fail as well.       *)
WriteSftpFails(r) ==
  /\ "fail" \in trouble /\ ~ failed /\ failed' = TRUE
  /\ req[r].at = "write" /\ Decrypts
  /\ \/ file' = NoServer /\ Goes(r, "saved")
     \/ file' \in {file, NoServer} /\ Ends(r)
  /\ UNCHANGED <<trouble, rows, hosts, sysMap, admitted, missed, served>>
SaveReturns(r) ==
  /\ req[r].at = "saved" /\ Ends(r)
  /\ UNCHANGED <<trouble, rows, hosts, sysMap, admitted, file, missed, served, failed>>

----------------------------------------------------------------------------
(* A statement throws: no catch of these methods is for its exception, and *)
(* what was done before stays.                                             *)
StatementFails(r) ==
  /\ "fail" \in trouble /\ ~ failed /\ failed' = TRUE
  /\ req[r].at \in {"compare", "select", "hosts", "delete", "insert", "load", "audit",
                    "sftp id", "sftp pwd", "write"}
  /\ Ends(r)
  /\ UNCHANGED <<trouble, rows, hosts, sysMap, admitted, file, missed, served>>

(* The server stops, and InitServlet fills the copies and writes the file. *)
SettingsRestart ==
  /\ "restart" \in trouble /\ served < MaxServed /\ served' = served + 1
  /\ req' = [r \in Requests |-> Idle]
  /\ sysMap' = rows /\ admitted' = hosts
  /\ file' = IF rows.pwd.with = rows.id THEN [id |-> rows.id, text |-> rows.pwd.text] ELSE file
  /\ UNCHANGED <<trouble, rows, hosts, missed, failed>>

SettingsNext ==
  \/ \E r \in Requests :
       \/ UpdateManagerSettingInfo(r) \/ Login(r)
       \/ ClearMap(r) \/ SelectRows(r) \/ PutRow(r) \/ FillsFirst(r) \/ Throws(r)
       \/ GetSetting(r) \/ CompareSettings(r) \/ CompareHosts(r) \/ DeleteAuthIp(r)
       \/ InsertAuthIp(r) \/ EmptyAdmitted(r) \/ SelectLoginIpList(r) \/ AssignAdmitted(r)
       \/ AuditSettings(r) \/ UpdateSftpId(r) \/ UpdateSftpPwd(r) \/ WriteSftpInfo(r)
       \/ WriteSftpFails(r) \/ SaveReturns(r) \/ StatementFails(r)
  \/ SettingsRestart

SettingsSpec == SettingsInit /\ [][SettingsNext]_settingsVars
----------------------------------------------------------------------------
(* Type invariant. *)
Points == {"idle", "get", "compare", "clear", "select", "put", "hosts", "delete", "insert",
           "empty", "load", "assign", "audit", "sftp id", "sftp pwd", "write", "saved"}
Rows == {RowsOf(f) : f \in Forms}
SettingsTypeOK ==
  /\ trouble \in SettingsFaults
  /\ DOMAIN rows = {"limit", "id", "pwd"} /\ DOMAIN sysMap \subseteq DOMAIN rows
  /\ hosts \subseteq UNION {f.hosts : f \in Forms}
  /\ admitted \subseteq UNION {f.hosts : f \in Forms}
  /\ file \in [id : {f.id : f \in Forms}, text : {f.text : f \in Forms}] \cup {NoServer}
  /\ \A r \in Requests : req[r].at \in Points /\ req[r].form \in Forms
  /\ missed \in BOOLEAN /\ failed \in BOOLEAN /\ served \in 0 .. MaxServed

(***************************************************************************)
(* Whatever overlapping requests and failed statements have left in the    *)
(* map, a page saved while nobody else is at work leaves it equal to the   *)
(* rows: updateSystemConf and updateSftpConf fill it even if nothing was   *)
(* changed.                                                                *)
(***************************************************************************)
SaveAloneSettles ==
  \A r \in Requests : req[r].at = "saved" /\ req[r].alone => sysMap = rows

(***************************************************************************)
(* With requests one after the other, a login never meets a map that lacks *)
(* its setting, even after a SELECT that failed has left the map empty.    *)
(***************************************************************************)
LoginFindsSettings == "overlap" \notin trouble => ~ missed

(***************************************************************************)
(* If nothing goes wrong, what the sensors are told of the SFTP server is  *)
(* what the rows say, whichever of name and password the page has changed: *)
(* the password is encrypted with the name, so a new name is a new         *)
(* password too.                                                           *)
(***************************************************************************)
SensorFileCurrent ==
  trouble = {} /\ Quiet => file = [id |-> rows.id, text |-> rows.pwd.text]

(***************************************************************************)
(* With requests one after the other and no failing statement, between two *)
(* requests the addresses that are let in are those of SYSTEM_HOST, also   *)
(* if the server has stopped in the middle of a save.                      *)
(***************************************************************************)
AddressesInForce ==
  trouble \cap {"overlap", "fail"} = {} /\ Quiet => admitted = hosts

(***************************************************************************)
(* WebAuthFilter.java 133 says that the filter logs out an address that is *)
(* not allowed.  An address that every page allows is allowed all the time. *)
(***************************************************************************)
KeptAddressAdmitted == {h \in StartForm.hosts : \A f \in Forms : h \in f.hosts} \subseteq admitted
=============================================================================
