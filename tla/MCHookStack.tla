---------------------------- MODULE MCHookStack ----------------------------
EXTENDS HookStack, TLC

CONSTANTS antv, hijack, hack, t1, t2

MCModules == {antv, hijack, hack}
MCScanning == {antv}
MCTasks == {t1, t2}
=============================================================================
