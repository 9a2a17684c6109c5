----------------------------- MODULE BackupNodes -----------------------------
(***************************************************************************)
(* The record of the optional backup nodes (backup_subscription.py) and    *)
(* what each of its operations makes of it.  A record joins two sources:   *)
(* the nodes of a subscription with an address, refreshed daily, and nodes *)
(* imported by hand.  The operations are operators from the record on disk *)
(* and the outcomes of their calls to the record they leave and the code   *)
(* they return; Sources.tla runs them under the operation lock.            *)
(*                                                                         *)
(* A node is its connection settings, one opaque value `id`, and a name.   *)
(* A name is the sequence of the numbers added to it: <<>> is "n" and      *)
(* <<2>> is "n (2)", which a subscription may also contain literally.      *)
(***************************************************************************)
EXTENDS Integers, FiniteSets, SequencesExt

CONSTANT Cap            \* validate_nodes' limit on a list of nodes (1000 in the code)

NoUrl == ""
Never == -1

(* What is on disk under backup-source.json.                               *)
NoRecord == [is |-> "none", url |-> NoUrl, nodes |-> <<>>, manual |-> <<>>,
             success |-> Never, error |-> FALSE]
Blank(url) == [NoRecord EXCEPT !.is = "record", !.url = url]
Corrupt == [NoRecord EXCEPT !.is = "corrupt"]

(* What read() accepts of a record: without an address it has manual nodes *)
(* and nothing else.                                                       *)
Readable(d) ==
    d.is = "record" =>
        /\ d.url = NoUrl => d.nodes = <<>> /\ d.manual # <<>>
        /\ Len(d.nodes) <= Cap
        /\ Len(d.manual) <= Cap

NamesOf(nodes) == {nodes[i].name : i \in DOMAIN nodes}
IdsOf(nodes) == {nodes[i].id : i \in DOMAIN nodes}

(* The name itself, or the first free one of "name (2)", "name (3)", ...   *)
Numbered(name, taken) ==
    IF name \notin taken
    THEN name
    ELSE LET free == {k \in 2 .. (Cardinality(taken) + 2) : Append(name, k) \notin taken}
         IN  Append(name, CHOOSE k \in free : \A j \in free : k <= j)

(* One more node: a setting that is there already is left out.             *)
Joined(merged, node) ==
    IF node.id \in IdsOf(merged)
    THEN merged
    ELSE Append(merged, [node EXCEPT !.name = Numbered(@, NamesOf(merged))])

combined_nodes(nodes, manual) ==
    LET all == nodes \o manual
        merged[k \in 0 .. Len(all)] == IF k = 0 THEN <<>> ELSE Joined(merged[k - 1], all[k])
    IN  merged[Len(all)]

Merged(d) == combined_nodes(d.nodes, d.manual)

(* Where a setting appears first.                                         *)
FirstOf(nodes, id) ==
    CHOOSE i \in DOMAIN nodes :
        nodes[i].id = id /\ \A j \in DOMAIN nodes : nodes[j].id = id => i <= j

(* What a merge of the two lists is, without saying how it is computed:    *)
(* every setting once, in the order of its first appearance, under its own *)
(* name or a numbered form of it, and no name twice.                       *)
IsMerge(nodes, manual, merged) ==
    LET all == nodes \o manual
    IN  /\ IdsOf(merged) = IdsOf(all)
        /\ \A i, j \in DOMAIN merged :
               i < j => /\ FirstOf(all, merged[i].id) < FirstOf(all, merged[j].id)
                        /\ merged[i].name # merged[j].name
        /\ \A i \in DOMAIN merged :
               LET own == all[FirstOf(all, merged[i].id)].name
               IN  \/ merged[i].name = own
                   \/ /\ Len(merged[i].name) = Len(own) + 1
                      /\ Front(merged[i].name) = own
                      /\ \E j \in 1 .. (i - 1) : merged[j].name = own

-----------------------------------------------------------------------------
(* How a write ends: well, with an error before the file is replaced, or   *)
(* with one after it (the fsync of the directory).                         *)
Writes == {"ok", "unwritten", "unsynced"}
Put(old, new, how) == IF how = "unwritten" THEN old ELSE new

Result(data, code) == [data |-> data, code |-> code]
Written(old, new, how) == Result(Put(old, new, how), IF how = "ok" THEN "ok" ELSE "error")

(* What the core says of a list of nodes it is shown: it accepts both      *)
(* lists, rejects the downloaded (or imported) one, or accepts that and    *)
(* rejects the merged one.                                                 *)
Cores == {"accepts", "rejects", "rejects merged"}

Fits(nodes) == nodes # <<>> /\ Len(nodes) <= Cap

(* The record a refresh keeps when it fails: the previous one; without one *)
(* the new one, as far as it had been filled in when the failure came.     *)
Kept(d, new, filled) == IF d.is = "record" THEN d ELSE IF filled THEN new ELSE Blank(new.url)

(* refresh: `given` is the address of a replacement, or NoUrl; `feed` the  *)
(* nodes of the answer, <<>> when there is no usable answer.               *)
refresh(d, given, feed, core, first, second, now) ==
    LET source == IF given # NoUrl THEN given ELSE d.url
        new == [Kept(d, Blank(source), FALSE) EXCEPT
                   !.url = source, !.nodes = feed, !.success = now, !.error = FALSE]
        filled == Fits(feed) /\ core # "rejects"
        written == filled /\ core = "accepts" /\ Fits(Merged(new))
        between == IF written THEN Put(d, new, first) ELSE d
        stale == [Kept(d, new, filled) EXCEPT !.error = TRUE]
    IN  CASE d.is = "corrupt" -> Result(d, "backup_source_invalid")
          [] d.is # "corrupt" /\ source = NoUrl ->
                 Result(d, IF d.manual # <<>> THEN "ok" ELSE "backup_url_invalid")
          [] d.is # "corrupt" /\ source # NoUrl ->
                 IF written /\ first = "ok"
                 THEN Result(new, "ok")
                 ELSE Result(Put(between, stale, second),
                             IF second = "ok" THEN "backup_download_failed" ELSE "error")

(* import_nodes: the text names the nodes, or is refused as a whole (<<>>).*)
import_nodes(d, nodes, core, how) ==
    LET candidate == combined_nodes(<<>>, nodes)
        new == [Kept(d, Blank(NoUrl), FALSE) EXCEPT !.manual = candidate]
    IN  CASE ~Fits(nodes) -> Result(d, "backup_nodes_invalid")
          [] Fits(nodes) /\ core = "rejects" -> Result(d, "error")
          [] Fits(nodes) /\ core # "rejects" /\ d.is = "corrupt" -> Result(d, "backup_source_invalid")
          [] Fits(nodes) /\ core # "rejects" /\ d.is # "corrupt" ->
                 IF core = "accepts" /\ Fits(Merged(new)) THEN Written(d, new, how) ELSE Result(d, "error")

(* _remove_file: nothing to remove is a success.                           *)
RemoveFile(d, how) == IF d.is = "none" THEN Result(d, "ok") ELSE Written(d, NoRecord, how)

(* A slip: the nodes of the removed subscription stay behind.              *)
Unsubscribed(d) == [d EXCEPT !.url = NoUrl, !.nodes = <<>>, !.success = Never, !.error = FALSE]

(* remove: the subscription goes, manual nodes stay.                       *)
remove(d, how) ==
    IF d.is = "record" /\ d.manual # <<>>
    THEN Written(d, Unsubscribed(d), how)
    ELSE RemoveFile(d, how)

(* remove_manual: the manual nodes go, a subscription stays.               *)
remove_manual(d, how) ==
    CASE d.is = "corrupt" -> Result(d, "backup_source_invalid")
      [] d.is = "none" -> Result(d, "ok")
      [] d.is = "record" ->
             IF d.url = NoUrl THEN RemoveFile(d, how) ELSE Written(d, [d EXCEPT !.manual = <<>>], how)
=============================================================================
