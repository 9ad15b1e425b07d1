---------------------------- MODULE MCExpenses ----------------------------
EXTENDS Expenses
CONSTANTS t1, t2
=============================================================================
