---------------------------- MODULE MCLoginBrowser ----------------------------
EXTENDS LoginBrowser
=============================================================================
