----------------------------- MODULE FeedTexts -----------------------------
(***************************************************************************)
(* The texts of feeds, as the extraction of OTX and MISP sees them.        *)
(*                                                                         *)
(* A text is a string, the same for all its spellings in letter case, and  *)
(* Facts[text] is what the patterns of the code find in it:                *)
(*   shape     "name", "url", "domain", "email", "number", "ip", "network",*)
(*             "dotted", "tlp", "cve", "attack", "reserved", "account",    *)
(*             "as", "position", ""                                        *)
(*   version   of an ip or a network: "ipv4-addr" or "ipv6-addr"           *)
(*   key       its letters and digits                                      *)
(*   tlp       the value of a TLP tag, or ""                               *)
(*   parts     the parts between bars or colons                            *)
(*   cves, attacks   the identifiers in it; asn: the AS number, or NoAs    *)
(*   title, fits, mapped   of a rule: its name, whether the Sigma parser   *)
(*             takes it, the texts of its tags and references              *)
(***************************************************************************)
EXTENDS Lists, TLC

CONSTANT Facts

\* The texts of a list are texts the patterns were tried on.
IsTextList(s) == IsList(s) /\ ToSet(s) \subseteq DOMAIN Facts

ASSUME FactsAssumption ==
    \A t \in DOMAIN Facts :
        /\ IsList(Facts[t].cves) /\ IsList(Facts[t].attacks) /\ IsTextList(Facts[t].mapped)

NoAs == -1

\* Mutant: the first text, given or not.
FirstTextAsIs(s) == s[1]

FirstText(s) ==
    LET given == {i \in DOMAIN s : s[i] # ""}
    IN IF given = {} THEN "" ELSE FirstOf(s, given)

\* An IPv4 address reads like a domain unless its field prefers an address.
ReadsAsDomain(t) ==
    \/ Facts[t].shape \in {"domain", "dotted"}
    \/ Facts[t].shape = "ip" /\ Facts[t].version = "ipv4-addr"

\* The name says more than the number, or is left out.
AsLabel(as) ==
    LET number == "AS" \o ToString(as.number)
    IN IF as.name \in {"", number} THEN number ELSE number \o " " \o as.name
=============================================================================
