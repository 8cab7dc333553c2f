------------------------------ MODULE MC_Access ------------------------------
(***************************************************************************)
(* A sender's token, good a moment after the start, and a supervisor's,    *)
(* which ends early enough for a session to be cut short by it.  A minute  *)
(* is two moments, so that it can be full, half over and over.  A session  *)
(* is set to last less than the browser keeps it, or more.                 *)
(***************************************************************************)
EXTENDS Access, TLC

CONSTANTS i, d, site, other

MCTokens  == {i, d}
MCOrigins == {site, other}
MCLists   == {{i}, {d}}

MCClaims ==
  i :> [signed |-> TRUE, scopes |-> {"ingest", "api"}, starts |-> 1,
        expires |-> 9, origins |-> {site}]
  @@ d :> [signed |-> TRUE, scopes |-> {"dashboard"}, starts |-> 0,
           expires |-> 3, origins |-> {}]

Body(declared, size, media, holds) ==
  [declared |-> declared, size |-> size, utf8 |-> TRUE, media |-> media,
   holds |-> holds]

MCBodies == {Body(1, 1, "ndjson", "lines"), Body(0, 2, "ndjson", "lines"),
             Body(1, 1, "json", "number")}

=============================================================================
