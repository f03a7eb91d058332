--------------------------- MODULE MCMarketSearch ---------------------------
EXTENDS MarketSearch, TLC

\* The days at which the five listings of the instance ended, the first page
\* first.
Endings == <<1, 2, 3, 3, 4>>
=============================================================================
