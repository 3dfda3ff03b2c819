---- MODULE MCScreens ----
EXTENDS Screens
====
