SPECIFICATION Spec
CONSTANTS
  base_vaddr = 65536
  TextSizes = {0, 4, 8}
  DataSizes = {0, 1, 6}
  OldSizes = {0, 10, 400}
INVARIANT PicoProduces
