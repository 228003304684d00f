--------------------------- MODULE MCCompanySettings ---------------------------
EXTENDS CompanySettings
===============================================================================
