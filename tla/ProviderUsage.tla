---------------------------- MODULE ProviderUsage ----------------------------
(***************************************************************************)
(* bandwagon.UsageCache: the server provider's usage on the administration *)
(* page, asked for at most once a minute under the cache's lock, while a   *)
(* terminal command (web_manage.execute) sets or deletes the account in    *)
(* the private credentials file.                                           *)
(***************************************************************************)
EXTENDS PortalClock

CONSTANTS UsageTtl,   \* 60 seconds
          Accounts    \* pairs of VEID and API key

ASSUME UsageTtlAssumption == UsageTtl \in Nat \ {0}

Absent    == "absent"       \* no credentials of this provider
Malformed == "malformed"    \* a file that read_credentials refuses

VARIABLES credentialsFile,  \* an account, Absent or Malformed
          credentials,      \* the cache's: an account or Absent
          checked, usage,   \* when the provider was asked; whose figures were kept
          querying,         \* get() waits for the provider, under the lock
          shown             \* the last answer: status, whose usage, and the account read for it

provider == <<credentialsFile, credentials, checked, usage, querying, shown>>

ProviderTypeOK ==
    /\ credentialsFile \in Accounts \cup {Absent, Malformed}
    /\ credentials \in Accounts \cup {Absent}
    /\ checked \in -1 .. MaxTime /\ usage \in Accounts \cup {Absent}
    /\ querying \in BOOLEAN
    /\ shown \in [status : {"ok", "error", "unconfigured"},
                  usage : Accounts \cup {Absent}, of : Accounts \cup {Absent}]

ProviderInit ==
    /\ credentialsFile \in Accounts \cup {Absent, Malformed}
    /\ watched # "provider" => credentialsFile = Absent
    /\ credentials = Absent /\ checked = -1 /\ usage = Absent /\ querying = FALSE
    /\ shown = [status |-> "unconfigured", usage |-> Absent, of |-> Absent]

Show(status, whose, account) ==
    shown' = [status |-> status, usage |-> whose, of |-> account]

(* What get() remembers after it has read the account: nothing of another   *)
(* account's.                                                               *)
RememberedByTime(account) == <<IF account = credentials THEN checked ELSE -1, usage>>
Remembered(account) == IF account = credentials THEN <<checked, usage>> ELSE <<-1, Absent>>

(* The lock is held from here to the answer of the provider. *)
GetUsage ==
    LET account == credentialsFile
        kept    == Remembered(account)
        stale   == kept[1] = -1 \/ clock - kept[1] >= UsageTtl
    IN /\ ~querying
       /\ IF account = Malformed
          THEN /\ credentials' = Absent /\ checked' = -1 /\ usage' = Absent
               /\ Show("error", Absent, Absent) /\ UNCHANGED querying
          ELSE /\ credentials' = account /\ checked' = kept[1] /\ usage' = kept[2]
               /\ querying' = (account # Absent /\ stale)
               /\ \/ querying' /\ UNCHANGED shown
                  \/ account = Absent /\ Show("unconfigured", Absent, Absent)
                  \/ account # Absent /\ ~stale /\ Show(shown.status, kept[2], account)
       /\ UNCHANGED <<time, credentialsFile>>

QueryAnswers ==
    /\ querying /\ querying' = FALSE /\ checked' = clock
    /\ \/ usage' = credentials /\ Show("ok", credentials, credentials) /\ UNCHANGED time
       \/ Trouble /\ Show("error", usage, credentials) /\ UNCHANGED usage
    /\ UNCHANGED <<credentialsFile, credentials>>

(* set-bwh-api and delete-bwh-api change the file, and refuse one they       *)
(* cannot read; somebody damages or mends it by hand.                       *)
ChangeFile(files) ==
    /\ credentialsFile' \in files \ {credentialsFile}
    /\ Trouble
    /\ UNCHANGED <<credentials, checked, usage, querying, shown>>

save_credentials == credentialsFile # Malformed /\ ChangeFile(Accounts \cup {Absent})
ByHand           == \/ ChangeFile({Malformed})
                    \/ credentialsFile = Malformed /\ ChangeFile(Accounts)

ProviderNext == /\ watched = "provider"
                /\ GetUsage \/ QueryAnswers \/ save_credentials \/ ByHand

(* "keep last success only for the same account" (bandwagon.py:16): what the *)
(* page shows never comes from an account other than the one that was read   *)
(* for this answer, though the account is replaced, deleted or damaged and   *)
(* put back between and during the queries.                                  *)
UsageIsOfTheAccount == shown.usage \in {shown.of, Absent}
=============================================================================
