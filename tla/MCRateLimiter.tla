--------------------------- MODULE MCRateLimiter ----------------------------
EXTENDS RateLimiter

Maxima(ip, principal, tenant, database, legacy) ==
    [ip |-> ip, principal |-> principal, tenant |-> tenant,
     database |-> database, legacy |-> legacy]

(* RATE_LIMIT_MAX_REQUESTS set switches to the single deque per user. *)
(* With every maximum at 0 the legacy deque decides, and refuses all.    *)
(* int() accepts a negative maximum, which admits nobody.                *)
AllModes ==
    {Maxima(3, 2, 2, 1, 0), Maxima(2, 1, 3, 1, 2), Maxima(0, 0, 0, 0, 0),
     Maxima(1, -1, 1, 1, 0), Maxima(1, 1, 1, 1, -1)}

(* Two users behind one address, and one of them from a second address; one *)
(* organisation, one database.                                              *)
MCCallers ==
    {[ip |-> "nat", principal |-> "ana", tenant |-> "acme", database |-> "sales"],
     [ip |-> "nat", principal |-> "bo", tenant |-> "acme", database |-> "sales"],
     [ip |-> "home", principal |-> "ana", tenant |-> "acme", database |-> "sales"]}

MCKeys == {"nat", "home", "ana", "bo", "acme", "sales"}
=============================================================================
