------------------------------ MODULE MCViews ------------------------------
EXTENDS Views

CONSTANTS na, nb, nc, nd

FourNodes == <<na, nb, nc, nd>>
ThreeNodes == <<na, nb, nc>>
=============================================================================
