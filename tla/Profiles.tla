------------------------------ MODULE Profiles ------------------------------
(***************************************************************************)
(* The Clash documents of the service, as far as their proxy groups go: how *)
(* a private document becomes a public template (template_sync.py), how a   *)
(* template and a user become a profile (generator.py), and when the check  *)
(* before publication accepts a profile (checks.py).                        *)
(*                                                                         *)
(* A group is a record: `members`, the names it chooses among (nodes,       *)
(* groups, built-in targets), and `use`, the node providers it draws from.  *)
(* A list of names is a set: no property here is about their positions.     *)
(***************************************************************************)
EXTENDS Integers, FiniteSets

CONSTANTS
  Names,             \* what a group, a node or a built-in target may be called
  Order,             \* the place of a group in the document, for every name
  Primary, Backup,   \* the group of the panel's nodes, the group of the backup nodes
  Builtins           \* DIRECT, REJECT, ...

Airport == "AmyTelecom"
BackupProvider == "Backup"
Providers == {Airport, BackupProvider}

Group == [members : SUBSET Names, use : SUBSET Providers]

(* Every document lists its groups in some order. *)
ASSUME OrderAssumption ==
  \A S \in (SUBSET Names) \ {{}} : \E g \in S : \A h \in S : Order[g] <= Order[h]

(* The special names are names, and different ones. *)
ASSUME NamesAssumption ==
  /\ IsFiniteSet(Names)
  /\ {Primary, Backup} \cup Builtins \subseteq Names
  /\ Primary # Backup /\ Backup \notin Builtins

AreGroups(groups) == DOMAIN groups \subseteq Names /\ groups \in [DOMAIN groups -> Group]

---------------------------------------------------------------------------
(* From a private document to a public template.                            *)

(* _without_backup_source: the backup group and every mention of it go.     *)
(* Names are those after its renaming: the owner's group under its old name  *)
(* becomes Primary, also as a member, and a member of it that is a node's    *)
(* name but for commas at the end becomes that name.                         *)
WithoutBackup(groups) ==
  [g \in DOMAIN groups \ {Backup} |->
     [members |-> groups[g].members \ {Backup}, use |-> groups[g].use \ {BackupProvider}]]

(* The groups that held a node of the source, and those that used the       *)
(* airport: the lists of profiles.yaml.                                      *)
NodeGroups(source) ==
  {g \in DOMAIN source.groups \ {Backup} : source.groups[g].members \cap source.nodes # {}}
\* Mutant of ProviderGroups: only groups with nothing but the airport count.
ProviderOnlyGroups(source) ==
  {g \in DOMAIN source.groups \ {Backup} :
     source.groups[g].use = {Airport} /\ source.groups[g].members = {}}
ProviderGroups(source) ==
  {g \in DOMAIN source.groups \ {Backup} : Airport \in source.groups[g].use}

(* _sanitize_compat: what is left for the public template. *)
Sanitized(source) ==
  LET groups == WithoutBackup(source.groups)
  IN [groups |-> [g \in DOMAIN groups |->
                    [members |-> groups[g].members \ source.nodes,
                     use |-> groups[g].use \ {Airport}]],
      rules |-> source.rules]

(* _profiles: which groups a user's nodes and the airport go back into. *)
Manifest(source) == [nodes |-> NodeGroups(source), providers |-> ProviderGroups(source)]

---------------------------------------------------------------------------
(* From a template and a user to a profile. A user has `nodes`, has the      *)
(* `airport` or not, and gets the `backup` nodes or not.                     *)

(* _inject_proxy_names *)
Injected(base, manifest, user) ==
  [g \in DOMAIN base.groups |->
     [members |-> base.groups[g].members
                    \cup (IF g \in manifest.nodes THEN user.nodes ELSE {}),
      use |-> base.groups[g].use
                \cup (IF user.airport /\ g \in manifest.providers THEN {Airport} ELSE {})]]

(* _configure_backup: the backup nodes as a group of their own, chosen from  *)
(* the primary group.                                                        *)
WithoutBackupGroup(groups) ==
  [g \in DOMAIN groups \ {Backup} |->
     IF g = Primary THEN [groups[g] EXCEPT !.members = @ \ {Backup}] ELSE groups[g]]

WithBackup(groups, user) ==
  IF Primary \notin DOMAIN groups THEN groups
  ELSE IF ~ user.backup THEN WithoutBackupGroup(groups)
  ELSE [g \in DOMAIN groups \cup {Backup} |->
          IF g = Backup THEN [members |-> {}, use |-> {BackupProvider}]
          ELSE IF g = Primary THEN [groups[g] EXCEPT !.members = @ \cup {Backup}]
          ELSE groups[g]]

(* The errors of the two: the manifest names a group the base lacks, or      *)
(* there are backup nodes and no primary group.                               *)
Composes(base, manifest, user) ==
  /\ manifest.nodes \cup manifest.providers \subseteq DOMAIN base.groups
  /\ user.backup => Primary \in DOMAIN base.groups

Composed(base, manifest, user) == WithBackup(Injected(base, manifest, user), user)

(* _drop_unusable_groups keeps the groups and the names dropped so far.      *)
Kept(work, g) == [work.groups[g] EXCEPT !.members = @ \ work.dropped]
\* Mutant of Unusable: a group is judged by the members it began with.
UnusableAtFirst(work) ==
  {g \in DOMAIN work.groups : work.groups[g].members = {} /\ work.groups[g].use = {}}
Unusable(work) ==
  {g \in DOMAIN work.groups : Kept(work, g).members = {} /\ work.groups[g].use = {}}

(* One pass: members dropped earlier are taken out of the groups up to the   *)
(* first unusable one, and that one is dropped.                              *)
Pass(work) ==
  LET gone == CHOOSE g \in Unusable(work) :
                \A h \in Unusable(work) : Order[g] <= Order[h]
  IN [groups |-> [g \in DOMAIN work.groups \ {gone} |->
                    IF Order[g] < Order[gone] THEN Kept(work, g) ELSE work.groups[g]],
      dropped |-> work.dropped \cup {gone}]

(* The last pass finds nothing to drop. *)
LastPass(work) == [work EXCEPT !.groups = [g \in DOMAIN work.groups |-> Kept(work, g)]]

(* The whole loop, one pass per group at most. *)
Rendered(groups) ==
  LET after[n \in 0 .. Cardinality(DOMAIN groups)] ==
        IF n = 0 THEN [groups |-> groups, dropped |-> {}]
        ELSE IF Unusable(after[n - 1]) = {} THEN after[n - 1] ELSE Pass(after[n - 1])
  IN LastPass(after[Cardinality(DOMAIN groups)]).groups

---------------------------------------------------------------------------
(* validate_clash, for a rendered profile.                                   *)

HasCycle(groups) ==
  \E S \in (SUBSET DOMAIN groups) \ {{}} : \A g \in S : groups[g].members \cap S # {}

ProvidersOf(user) ==
  (IF user.airport THEN {Airport} ELSE {}) \cup (IF user.backup THEN {BackupProvider} ELSE {})

Valid(groups, rules, user) ==
  LET targets == user.nodes \cup DOMAIN groups \cup Builtins
  IN /\ user.nodes # {} \/ ProvidersOf(user) # {}
     /\ DOMAIN groups # {}
     /\ user.nodes \cap DOMAIN groups = {}
     /\ \A g \in DOMAIN groups :
          /\ groups[g].members # {} \/ groups[g].use # {}
          /\ groups[g].members \subseteq targets
          /\ groups[g].use \subseteq ProvidersOf(user)
     /\ ~ HasCycle(groups)
     /\ rules \subseteq targets

---------------------------------------------------------------------------
(* The reference for the dropping: a set of groups that need nothing outside *)
(* it but nodes, built-in targets and providers.                             *)
Supported(groups, U) ==
  /\ U \subseteq DOMAIN groups
  /\ \A g \in U : \/ groups[g].use # {}
                  \/ groups[g].members \ DOMAIN groups # {}
                  \/ groups[g].members \cap U # {}
=============================================================================
