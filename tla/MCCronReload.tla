---------------------------- MODULE MCCronReload ----------------------------
\* Two requests on two items, each begun at most once; a fault anywhere.
EXTENDS CronReload
=============================================================================
