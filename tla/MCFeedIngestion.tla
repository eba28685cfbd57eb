-------------------------- MODULE MCFeedIngestion --------------------------
(***************************************************************************)
(* An instance of FeedIngestion for TLC: OTX with two queries that find a  *)
(* common pulse and end after one ingest, and MISP with one query.  p1 is  *)
(* found by both queries, p2 only by the first and behind p1; held is      *)
(* quarantined under both, so it has two records, and red is denied by its *)
(* TLP.                                                                    *)
(*                                                                         *)
(* hash is carried by items of both sources, so the artifact index of one  *)
(* source suppresses indicators of the other.  uri has no pattern and the  *)
(* fingerprint of link, a URL with the same value; domain and host are one *)
(* name under two types; loose has no fingerprint, and mail is of a type   *)
(* that is not allowed.  p1 and p2 name the same actor, and the candidate  *)
(* k3 of p2 is not made by the builder.                                    *)
(***************************************************************************)
EXTENDS FeedIngestion, TLC

CONSTANTS otx, misp, p1, p2, held, red, e1,
          uri, link, hash, host, domain, loose, mail, k1, k2, k3, k4

MCSource == <<otx, otx, misp>>
MCFound == << <<p1, p2, held>>, <<p1, held, red>>, <<e1>> >>
MCVerdict ==
    << [i \in Items |-> IF i = held THEN "quarantine" ELSE "ingest"],
       [i \in Items |-> IF i \in {held, red} THEN "quarantine" ELSE "ingest"],
       [i \in Items |-> "ingest"] >>

MCCarries == (p1 :> {uri, hash, host}) @@ (p2 :> {link, hash, domain, loose})
             @@ (held :> {link, mail}) @@ (red :> {hash}) @@ (e1 :> {hash})
MCPattern == (uri :> NoPattern) @@ (link :> "url") @@ (hash :> "file")
             @@ (host :> "name") @@ (domain :> "name") @@ (loose :> "blank")
             @@ (mail :> "email")
MCFingerprint == (uri :> "url") @@ (link :> "url") @@ (hash :> "sha256")
           @@ (host :> "hostname") @@ (domain :> "domain") @@ (loose :> NoFingerprint)
           @@ (mail :> "email")

MCGraph == (p1 :> {k1}) @@ (p2 :> {k2, k3}) @@ (held :> {}) @@ (red :> {})
           @@ (e1 :> {k4})
MCEntity == (k1 :> "actor") @@ (k2 :> "actor") @@ (k3 :> "tool") @@ (k4 :> "sector")

MCMaxReviewed == (otx :> 3) @@ (misp :> 2)
\* The analysts release all of held under both queries, or nothing.
MCReleases ==
    [j \in 1 .. 3 |-> [i \in Items |-> IF i = held THEN {link, mail} ELSE {}]]
MCNoReleases == [j \in 1 .. 3 |-> [i \in Items |-> {}]]
\* Only OTX ends a query at a number of ingests (max_pulses_per_query).
MCMaxIngested == (otx :> 1) @@ (misp :> 9)
=============================================================================
