----------------------------- MODULE MCDispatch -----------------------------
EXTENDS Dispatch

\* Methods for both classes and a default; for the first class only.
ClosureTables == {<<"m", "m", "m">>, <<"m", None, None>>}
=============================================================================
