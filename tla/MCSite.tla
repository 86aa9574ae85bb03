------------------------------- MODULE MCSite -------------------------------
(***************************************************************************)
(* Site for TLC: the contents of relay.json that make a difference, and    *)
(* environments with none, one or both of the secrets.                     *)
(***************************************************************************)
EXTENDS Site

CONSTANTS siteUrl, default, own, k1, k2, t0

MCUrls == {siteUrl}
MCApps == {default, own}
MCKeys == {k1, k2, t0}
MCTokens == {t0}

Object(url, a, interval) == [file |-> "object", url |-> url, app |-> a, interval |-> interval]

MCRelayJsons ==
  {[Object(Absent, Absent, Absent) EXCEPT !.file = f] : f \in {"missing", "unreadable"}}
    \cup {Object(siteUrl, Absent, Absent), Object(siteUrl, own, 5),
          Object(Invalid, own, Absent), Object(siteUrl, own, Invalid)}

MCGiven ==
  {NoSecrets,
   [key |-> k1, blob |-> Absent],
   [key |-> k1, blob |-> [key |-> k1, token |-> t0]],
   [key |-> Absent, blob |-> [key |-> k1, token |-> t0]],
   [key |-> k1, blob |-> [key |-> k1, token |-> Absent]]}

=============================================================================
