---------------------------- MODULE MCTicketDesk ----------------------------
EXTENDS TicketDesk

CONSTANTS t1, t2, none

\* Two tickets of one replay chain.
MCTickets == {t1, t2}
=============================================================================
