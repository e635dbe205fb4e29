---------------------------- MODULE MCPagination ----------------------------
EXTENDS Pagination

MCIds == 1..5
=============================================================================
