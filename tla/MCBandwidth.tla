---- MODULE MCBandwidth ----
\* Model checking of Bandwidth.  The limits and caps are small numbers that
\* divide unevenly among the engines.
EXTENDS Bandwidth
====
