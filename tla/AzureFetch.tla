----------------------------- MODULE AzureFetch -----------------------------
(***************************************************************************)
(* One fetch of the Azure ranges (cloudproviders.go): a page is read, one  *)
(* of the links on it chosen, and the document behind it downloaded, with  *)
(* retries, all before one deadline.  A link is [trusted, date, name];     *)
(* today is 0 and NoDate says that a link has no date.                     *)
(***************************************************************************)
EXTENDS Integers, Sequences, FiniteSets, FiniteSetsExt, SequencesExt

CONSTANTS
    Pages,            \* [failover, tags, generic]: a link, a sequence, a link
    NoDate, NoLink,
    MaxElapsed,       \* azureDownloadMaxElapsed
    PageTimeout, AttemptTimeout, RetryDelay, MaxAttempts,
    Pending

VARIABLES page, fetch, result
fetchVars == <<page, fetch, result>>

----------------------------------------------------------------------------
(* The choice of the link                                                  *)

\* Mutation of Dated: a date to come is believed.
DatedAhead(link) == link.date # NoDate
Dated(link) == link.date # NoDate /\ link.date <= 0

\* compareServiceTagsKeys
Older(a, b) ==
    \/ ~Dated(a) /\ Dated(b)
    \/ Dated(a) /\ Dated(b) /\ a.date < b.date
    \/ /\ Dated(a) = Dated(b) /\ (Dated(a) => a.date = b.date)
       /\ a.name < b.name

Trusted(links) == SelectSeq(links, LAMBDA l : l.trusted)
Newest(links) ==
    FoldLeft(LAMBDA w, l : IF Older(w, l) THEN l ELSE w, Head(Trusted(links)), Tail(Trusted(links)))

Chosen(p) ==
    CASE p.failover # NoLink /\ p.failover.trusted -> p.failover
      [] ~(p.failover # NoLink /\ p.failover.trusted) /\ Trusted(p.tags) # <<>> -> Newest(p.tags)
      [] OTHER -> p.generic

----------------------------------------------------------------------------
FetchInit ==
    /\ page \in Pages
    /\ fetch = [elapsed |-> 0, attempt |-> 0, link |-> NoLink]
    /\ result = Pending

Remaining == MaxElapsed - fetch.elapsed

Within(timeout) == 0..Min({timeout, Remaining})

FetchPage ==
    /\ result = Pending /\ fetch.attempt = 0
    /\ \E t \in Within(PageTimeout) :
         \/ /\ fetch' = [fetch EXCEPT !.elapsed = @ + t, !.link = Chosen(page), !.attempt = 1]
            /\ result' = IF Chosen(page) = NoLink THEN "no link" ELSE Pending
         \/ /\ fetch' = [fetch EXCEPT !.elapsed = @ + t]
            /\ result' = "failed"
    /\ UNCHANGED page

\* After a pause, unless there is no time for it.
Retries(elapsed) ==
    [fetch EXCEPT !.elapsed = elapsed + Min({RetryDelay, MaxElapsed - elapsed}), !.attempt = @ + 1]

\* The document; a redirect that the client does not follow, which is final;
\* any other failure.
Download ==
    /\ result = Pending /\ fetch.attempt > 0 /\ Remaining > 0
    /\ \E t \in Within(AttemptTimeout) :
         LET elapsed == fetch.elapsed + t
             over    == fetch.attempt >= MaxAttempts \/ elapsed >= MaxElapsed
         IN \/ /\ result' = "ranges"
               /\ fetch' = [fetch EXCEPT !.elapsed = elapsed]
            \/ /\ result' = "failed"
               /\ fetch' = [fetch EXCEPT !.elapsed = elapsed]
            \/ /\ result' = IF over THEN "failed" ELSE Pending
               /\ fetch' = IF over THEN [fetch EXCEPT !.elapsed = elapsed] ELSE Retries(elapsed)
    /\ UNCHANGED page

OutOfTime ==
    /\ result = Pending /\ fetch.attempt > 0 /\ Remaining <= 0
    /\ result' = "failed"
    /\ UNCHANGED <<page, fetch>>

FetchNext == FetchPage \/ Download \/ OutOfTime

----------------------------------------------------------------------------
(* Properties                                                              *)

(* Only a link of the trusted host is followed, and without a failover link  *)
(* none of the page has a later date up to today: a link dated ahead, or     *)
(* listed first, does not keep the ranges old (extractNewestServiceTagsURL). *)
NewestIsDownloaded ==
    LET link == fetch.link
        past == {t.date : t \in {s \in ToSet(page.tags) : s.trusted /\ s.date # NoDate}} \cap Int
    IN link # NoLink =>
         /\ link.trusted
         /\ link \notin {page.failover, page.generic} =>
              \A d \in {e \in past : e <= 0} : link.date # NoDate /\ d <= link.date /\ link.date <= 0

(* The page, all attempts and the pauses between them end by one deadline:   *)
(* retries do not add up beyond it (downloadAzureServiceTags).               *)
FetchMeetsDeadline == fetch.elapsed <= MaxElapsed /\ fetch.attempt <= MaxAttempts
=============================================================================
