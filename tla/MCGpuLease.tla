----------------------------- MODULE MCGpuLease -----------------------------
EXTENDS GpuLease

CONSTANTS w1, w2, d1, d2

MCWorkers == {w1, w2}
MCMortal == {w1}
MCDevices == {d1, d2}
MCPool == <<d1, d2>>
MCForeigners == {d1}
=============================================================================
