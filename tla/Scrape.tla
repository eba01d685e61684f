------------------------------- MODULE Scrape -------------------------------
(***************************************************************************)
(* Exporter with a Prometheus server that scrapes it (external: promhttp   *)
(* and the Gather of client_golang). A scrape is no snapshot: Collect      *)
(* lists the series that `seconds' has, under the lock that creating one   *)
(* takes, and Gather then reads them one by one, in no particular order,   *)
(* while Inc.apply goes on adding. The steps of Exporter do not read the   *)
(* variables of this module.                                               *)
(***************************************************************************)
EXTENDS Exporter

VARIABLES
  scraping,   \* whether a scrape is under way
  unread,     \* the series <<kind, ConnKey>> it has listed and not yet read
  sample,     \* series -> the value it has read
  reported,   \* series -> the value of the last complete scrape of this process
  during      \* ConnKey -> number of Incs handed to Apply, and not yet applied
              \* when the scrape began

scrapeVars == <<scraping, unread, sample, reported, during>>

(* The kinds of connectivity_exporter_seconds_total.                       *)
SecondsKinds == {"active", "failed", "active_failed"}

(* A series that is not in a scrape is one that has not been added to.     *)
In(scrape, kind, ck) ==
  IF <<kind, ck>> \in DOMAIN scrape THEN scrape[<<kind, ck>>] ELSE 0

NoIncs == [ck \in ConnKey |-> 0]

ScrapeInit ==
  /\ Init
  /\ scraping = FALSE /\ unread = {} /\ during = NoIncs
  /\ sample = EmptyMap /\ reported = EmptyMap

NoScrape == scraping' = FALSE /\ unread' = {} /\ during' = NoIncs /\ sample' = EmptyMap

-----------------------------------------------------------------------------
Listed == UNION {{kind} \X DOMAIN counters[kind] : kind \in SecondsKinds}

ScrapeStart ==
  /\ Alive /\ ~scraping
  /\ scraping' = TRUE
  /\ unread' = Listed
  /\ during' = [ck \in ConnKey |-> IF applying # Null /\ applying.key = ck THEN 1 ELSE 0]
  /\ UNCHANGED <<vars, sample, reported>>

ScrapeRead(kind, ck) ==
  /\ Alive /\ scraping
  /\ unread' = unread \ {<<kind, ck>>}
  /\ sample' = MapPut(sample, <<kind, ck>>, Value(kind, ck))
  /\ UNCHANGED <<vars, scraping, reported, during>>

ScrapeEnd ==
  /\ Alive /\ scraping /\ unread = {}
  /\ reported' = sample
  /\ NoScrape
  /\ UNCHANGED vars

(* The steps of the exporter while a scrape is under way, or none is.      *)
ExporterStep ==
  /\ Next
  /\ IF Alive
     THEN /\ during' = IF scraping /\ applying = Null /\ applying' # Null
                       THEN [during EXCEPT ![applying'.key] = @ + 1] ELSE during
          /\ UNCHANGED <<scraping, unread, sample, reported>>
     ELSE NoScrape /\ reported' = EmptyMap

ScrapeNext ==
  \/ ExporterStep
  \/ ScrapeStart
  \/ \E s \in unread : ScrapeRead(s[1], s[2])
  \/ ScrapeEnd

ScrapeSpec == ScrapeInit /\ [][ScrapeNext]_<<vars, scrapeVars>>

-----------------------------------------------------------------------------
(* The value of a series is known: it has been read, or was not listed.    *)
Settled(kind, ck) == scraping /\ <<kind, ck>> \notin unread

(***************************************************************************)
(* What can be concluded from scrapes although they read the series one by *)
(* one between the additions of Inc.apply, in whatever order. From one     *)
(* scrape to the next no kind of seconds goes back, and every active       *)
(* failed second reported by the one is among the active and among the     *)
(* failed seconds of the next. Within one scrape active_failed may exceed  *)
(* either, but by no more than the Incs that were applied during it.       *)
(***************************************************************************)
ScrapesOrdered ==
  \A ck \in ConnKey :
    /\ \A kind \in SecondsKinds :
         Settled(kind, ck) => In(reported, kind, ck) <= In(sample, kind, ck)
    /\ \A kind \in {"active", "failed"} :
         Settled(kind, ck) =>
           /\ In(reported, "active_failed", ck) <= In(sample, kind, ck)
           /\ Settled("active_failed", ck) =>
                In(sample, "active_failed", ck) <= In(sample, kind, ck) + during[ck]
=============================================================================
