------------------------------ MODULE MCYears ------------------------------
EXTENDS FinancialYears
MCAmounts == {1}
=============================================================================
