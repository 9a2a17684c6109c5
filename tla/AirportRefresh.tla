---------------------------- MODULE AirportRefresh ----------------------------
(***************************************************************************)
(* How the airport's provider file is renewed: the portal page            *)
(* (airport_portal.py), the download of a link (sources.py) and the four   *)
(* operations of service.py that join them.  The replacement of the file   *)
(* and its record is one step here; AirportTransaction.tla has its parts.  *)
(*                                                                         *)
(* The airport is `web`: its portal page, the links that are alive, and    *)
(* whether they are enabled, for a while, by a visit to the page.  A       *)
(* document is known by its link and the time it was fetched at.           *)
(***************************************************************************)
EXTENDS Integers, Sequences

CONSTANTS Links,        \* subscription links on the portal's own origin
          Foreign       \* a link on another origin, which an answer may carry

None == "none"

NoAirport == [saved |-> FALSE, source_url |-> None, activation_url |-> None,
              document |-> None, fetched |-> -1]

(* What the portal page is: it answers with its one button and variables,  *)
(* it does not answer (or redirects away), or it answers something that    *)
(* _parse_portal_page does not know.                                       *)
PortalStates == {"open", "closed", "changed"}
PortalError == [closed |-> "airport_portal_unavailable", changed |-> "airport_portal_unsupported"]

Failed(code) == [ok |-> FALSE, code |-> code, link |-> None]
Got(link) == [ok |-> TRUE, code |-> "ok", link |-> link]

activate(web) ==
    IF web.portal = "open" THEN Got(None) ELSE Failed(PortalError[web.portal])

Opened(web) == [web EXCEPT !.enabled = @ \/ web.portal = "open"]

-----------------------------------------------------------------------------
(* A POST for a link is answered with a link, with a task that waits for   *)
(* its link, or with something _post rejects: a refusal, a redirect to     *)
(* another origin, a document of another shape.                            *)
PostAnswers == [is : {"url"}, text : Links \cup {Foreign}]
               \cup {[is |-> "subid", text |-> "task"], [is |-> "rejected", text |-> None]}

(* The second answer only matters after a task.                            *)
PostPairs == {pair \in PostAnswers \X PostAnswers : pair[1].is # "subid" => pair[2] = pair[1]}

_validated_source_url(text) ==
    IF text \in Links THEN Got(text) ELSE Failed("airport_link_generation_failed")

(* After a task comes one wait and one more POST.  Whatever that answers   *)
(* has to be a link: a second task is no address and is rejected as one.   *)
generate_source_url(first, second) ==
    LET last == IF first.is = "subid" THEN second ELSE first
    IN  IF first.is = "rejected" \/ last.is = "rejected"
        THEN Failed("airport_link_generation_failed")
        ELSE _validated_source_url(last.text)

(* A download fails in several ways (no answer, too many redirects, too    *)
(* large, empty, an HTML page) that all keep the old file.                 *)
download_airport_document(web, link) ==
    IF link = Foreign \/ (web.enabled /\ link \in web.alive) THEN Got(link) ELSE Failed("airport_download_failed")

-----------------------------------------------------------------------------
(* An operation ends with what is to be replaced, with an error, or with   *)
(* the skip of the daily refresh.                                          *)
Ends(code) == [code |-> code, source_url |-> None, activation_url |-> None, document |-> None]
Replaces(source, page, document) ==
    [code |-> "ok", source_url |-> source, activation_url |-> page, document |-> document]

(* The download of a new link for the page that has just been opened.      *)
FromPage(web, page, first, second) ==
    LET link == generate_source_url(first, second)
        download == download_airport_document(Opened(web), link.link)
    IN  CASE ~link.ok -> Ends(link.code)
          [] link.ok /\ ~download.ok -> Ends(download.code)
          [] link.ok /\ download.ok -> Replaces(link.link, page, download.link)

configure_airport_portal(web, page, first, second) ==
    LET opened == activate(web)
    IN  IF opened.ok THEN FromPage(web, page, first, second) ELSE Ends(opened.code)

replace_airport_source(web, airport, url) ==
    LET download == download_airport_document(web, url)
    IN  IF download.ok
        THEN Replaces(url, airport.activation_url, download.link)
        ELSE Ends(download.code)

refresh_airport(web, airport) ==
    IF ~airport.saved
    THEN Ends("airport_source_missing")
    ELSE replace_airport_source(web, airport, airport.source_url)

(* auto_refresh_airport: the page is opened, because that enables the      *)
(* subscription; the saved link comes first; only when it fails does an    *)
(* open page make a new one.                                               *)
Chain(web, again, airport, first, second) ==
    LET opened == activate(web)
    IN  CASE ~airport.saved \/ airport.activation_url = None -> Ends("airport_activation_missing")
          [] airport.saved /\ airport.activation_url # None /\ again.ok ->
                 Replaces(airport.source_url, airport.activation_url, again.link)
          [] airport.saved /\ airport.activation_url # None /\ ~again.ok ->
                 IF opened.ok
                 THEN FromPage(web, airport.activation_url, first, second)
                 ELSE Ends(IF web.portal = "closed" THEN "skipped" ELSE opened.code)

(* Slips: the saved link is tried before the page is opened; the document  *)
(* of a new link is filed under the link that failed.                      *)
auto_refresh_unopened(web, airport, first, second) ==
    Chain(web, download_airport_document(web, airport.source_url), airport, first, second)

auto_refresh_airport(web, airport, first, second) ==
    Chain(web, download_airport_document(Opened(web), airport.source_url),
          airport, first, second)

(* _replace_airport: body, link and page go together; the traffic of  *)
(* the same answer rides along.                                            *)
_replace_airport(made, now) ==
    [saved |-> TRUE, source_url |-> made.source_url, activation_url |-> made.activation_url,
     document |-> made.document, fetched |-> now]
=============================================================================
