--------------------------- MODULE MCStaticFields ---------------------------
(***************************************************************************)
(* Static fields that all requests share, for TLC: the key of the pages    *)
(* (PageKeys) and the cipher (SharedCipher) of AesUtil.java, and what the  *)
(* console keeps of the settings page (SystemSettings).  They share no     *)
(* state, so a behaviour is one of one of them, and the others stay at     *)
(* their start.                                                            *)
(***************************************************************************)
EXTENDS PageKeys, SharedCipher, SystemSettings, TLC

CONSTANT Fields  \* which of the three are looked at

VARIABLE field   \* the one of this behaviour: rigid

MCRaceSets == {{}, {"first"}, {"end"}}

Page(limit, id, text, allowed) == [limit |-> limit, id |-> id, text |-> text, hosts |-> allowed]
MCStartForm == Page(3, "id1", "text1", {"home"})
MCForms == {MCStartForm, Page(5, "id1", "text1", {"home"}), Page(3, "id2", "text1", {"home"}),
            Page(3, "id1", "text2", {"home", "away"})}
MCSettingsFaults == {{}, {"restart"}, {"fail", "restart"}, {"overlap"}}
RequestSymmetry == Permutations(Requests)

staticVars == <<field, keyVars, cipherVars, settingsVars>>

StaticInit ==
  /\ field \in Fields
  /\ KeysInit /\ (field # "passPhrase" =>
                    races = {} /\ user = [p \in Pages |-> CHOOSE s \in Sessions : TRUE])
  /\ CipherInit /\ (field # "cipher" => crowd = (TRUE \in Crowds))
  /\ SettingsInit /\ (field # "sysMap" => trouble = {})

KeysStep == field = "passPhrase" /\ KeysNext /\ UNCHANGED <<field, cipherVars, settingsVars>>
CipherStep == field = "cipher" /\ CipherNext /\ UNCHANGED <<field, keyVars, settingsVars>>
SettingsStep == field = "sysMap" /\ SettingsNext /\ UNCHANGED <<field, keyVars, cipherVars>>

StaticSpec == StaticInit /\ [][KeysStep \/ CipherStep \/ SettingsStep]_staticVars
=============================================================================
