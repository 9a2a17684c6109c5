--------------------------- MODULE MCTemplateSync ---------------------------
(***************************************************************************)
(* TemplateSync for TLC: documents of two or three groups besides the backup *)
(* group, over one node of their own. Auto may refer to the other two, Proxy *)
(* to Auto, so that a drop may set off the next one and groups may go round. *)
(***************************************************************************)
EXTENDS TemplateSync

MCNames == {"Proxy", "Auto", "Air", "Standby", "DIRECT", "own", "n1", "n2", "probe"}
MCOrder == [n \in MCNames |-> CASE n = "Auto" -> 1 [] n = "Proxy" -> 2 [] n = "Standby" -> 3
                                [] n = "Air" -> 4 [] OTHER -> 5]

(* Proxy always has the backup group as a member; the other two may use the  *)
(* airport.                                                                  *)
Choices(names, uses) == [members : SUBSET names, use : uses]
MayUseAirport == {{}, {Airport}}

ProxyChoices ==
  {[members |-> m \cup {"Standby"}, use |-> {}] : m \in SUBSET {"Auto", "own"}}
AirChoices == Choices({"own"}, MayUseAirport)

FullDocuments ==
  {[Proxy |-> p, Auto |-> u, Air |-> r] :
     p \in ProxyChoices, r \in AirChoices,
     u \in Choices({"Proxy", "Air", "own", "DIRECT"}, MayUseAirport)}
SmallDocuments ==   \* no primary group
  {[Auto |-> u, Air |-> r] :
     u \in Choices({"Air", "own", "DIRECT"}, MayUseAirport), r \in AirChoices}

BackupGroup == [members |-> {}, use |-> {BackupProvider}]
WithStandby(groups) ==
  [g \in DOMAIN groups \cup {"Standby"} |-> IF g = "Standby" THEN BackupGroup ELSE groups[g]]

MCSources ==
  {[groups |-> WithStandby(d), rules |-> {"Auto"}, nodes |-> {"own"}] :
     d \in FullDocuments \cup SmallDocuments}

MCUsers ==
  {[nodes |-> {"n1"}, airport |-> FALSE, backup |-> FALSE],
   [nodes |-> {"n1", "n2"}, airport |-> FALSE, backup |-> TRUE],
   [nodes |-> {"n1"}, airport |-> TRUE, backup |-> TRUE],
   [nodes |-> {}, airport |-> TRUE, backup |-> FALSE],
   [nodes |-> {"Air"}, airport |-> FALSE, backup |-> FALSE]}

(* The templates before: one group of nodes, with the airport in it. *)
FirstSource ==
  [groups |-> [g \in {"Proxy"} |-> [members |-> {"own"}, use |-> {Airport}]],
   rules |-> {"Proxy"}, nodes |-> {"own"}]
MCFirstFiles ==
  [base |-> Sanitized(FirstSource), profiles |-> Manifest(FirstSource), dns |-> "old"]
=============================================================================
