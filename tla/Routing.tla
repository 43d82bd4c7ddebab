------------------------------ MODULE Routing ------------------------------
(***************************************************************************)
(* The routing decision of background.js (shouldUseTor) on host names      *)
(* taken as sequences of labels: <<"www", "example", "com">>.  The root    *)
(* label of a fully qualified name (the trailing dot) is the label "".     *)
(***************************************************************************)
EXTENDS Sequences, Naturals, SequencesExt

Modes == {"onion", "all", "whitelist"}

\* Drops one trailing dot, as isOnion and matchesWhitelist both do.
Unrooted(host) ==
    IF host # <<>> /\ Last(host) = "" THEN Front(host) ELSE host

\* Mutant: the trailing dot is not dropped.
isOnionUnrooted(host) == Len(host) > 1 /\ Last(host) = "onion"

\* endsWith(".onion"): a bare "onion" is no onion address.
isOnion(host) == Len(Unrooted(host)) > 1 /\ Last(Unrooted(host)) = "onion"

\* The host is the entry itself or any of its subdomains.
matchesWhitelist(host, whitelist) ==
    \E entry \in whitelist : entry # <<>> /\ IsSuffix(entry, Unrooted(host))

shouldUseTor(host, mode, whitelist) ==
    \/ isOnion(host)
    \/ mode = "all"
    \/ mode = "whitelist" /\ matchesWhitelist(host, whitelist)
=============================================================================
