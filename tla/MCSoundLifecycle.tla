-------------------------- MODULE MCSoundLifecycle --------------------------
EXTENDS SoundLifecycle

CONSTANTS h1, h2

TwoHandles == {h1, h2}
=============================================================================
