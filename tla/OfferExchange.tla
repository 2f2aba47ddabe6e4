--------------------------- MODULE OfferExchange ---------------------------
(***************************************************************************)
(* What the negotiation gate of peer_connection.go promises, without its   *)
(* flags, locks and messages: one offer/answer exchange at a time, each    *)
(* begun from a stable peer connection, and every server offer carrying at *)
(* least one sender change that no earlier server offer was made for.  An  *)
(* offer that pion installed and then refused is never sent and does not   *)
(* count as made, but occupies the exchange.                               *)
(***************************************************************************)
EXTENDS Naturals

VARIABLES exchange,  \* "none", "server" or "browser" (who offered), "closed"
          changed,   \* sender changes made
          offered    \* sender changes server offers were made for

vars == <<exchange, changed, offered>>

Init == exchange = "none" /\ changed = 0 /\ offered = 0

Change == /\ exchange # "closed"
          /\ changed' \in {changed + 1, changed + 2}
          /\ UNCHANGED <<exchange, offered>>

ServerOffers == /\ exchange = "none" /\ exchange' = "server"
                /\ offered' \in (offered + 1)..changed
                /\ UNCHANGED changed

ServerOfferRefused == /\ exchange = "none" /\ exchange' = "server"
                      /\ offered < changed
                      /\ UNCHANGED <<changed, offered>>

BrowserOffers == /\ exchange = "none" /\ exchange' = "browser"
                 /\ UNCHANGED <<changed, offered>>

Answered == /\ exchange \in {"server", "browser"} /\ exchange' = "none"
            /\ UNCHANGED <<changed, offered>>

Close == /\ exchange # "closed" /\ exchange' = "closed"
         /\ UNCHANGED <<changed, offered>>

Next == \/ Change \/ ServerOffers \/ ServerOfferRefused \/ BrowserOffers
        \/ Answered \/ Close

Spec == Init /\ [][Next]_vars
=============================================================================
