---------------------------- MODULE MCEventQueue ----------------------------
\* Two pushing threads, one of them the main thread itself (it runs the update
\* handlers until authorization ends), and the event types of event_types.h
\* that carry different payloads.
EXTENDS EventQueue
=============================================================================
