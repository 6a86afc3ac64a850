--------------------------- MODULE MCTicketWorker ---------------------------
EXTENDS TicketWorker
=============================================================================
