----------------------------- MODULE MCRtl8139 -----------------------------
EXTENDS Rtl8139
=============================================================================
