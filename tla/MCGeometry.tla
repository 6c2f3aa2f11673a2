----------------------------- MODULE MCGeometry -----------------------------
\* Two heights, one without room for the composer at the start, and two widths:
\* sizes chosen on the larger terminal are refused on the smaller one.  A third
\* width, of one column, leaves a main pane that starts there without a panel.
EXTENDS Geometry
=============================================================================
