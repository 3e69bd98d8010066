---------------------------- MODULE MC_FdeventPoll ----------------------------
EXTENDS FdeventPoll, TLC
CONSTANTS POLLIN, POLLOUT
MCEvents == {POLLIN, POLLOUT}
====
